---- MODULE Spec2Model ----
(***************************************************************************)
(* A model of the LLMC / LLMD container codec (llmc_python, llmd_python):  *)
(* the header codec, the metadata block, the embedded store and the        *)
(* parse_stream / write_stream / write_file handlers.                      *)
(*                                                                         *)
(* Representation.                                                         *)
(*  - A stream is a sequence of bytes.  A byte is a record [k, v]: k names  *)
(*    what the byte belongs to.  Header bytes are k = "raw" with v in       *)
(*    0..255.  The YAML text and the SQLite image are produced and read by  *)
(*    the two collaborators (PyYAML, sqlite3); one byte of k = "yaml"       *)
(*    stands for one character group of the text (a "key: value" entry, a   *)
(*    newline, a space, a NUL) and the one byte of k = "db" stands for the  *)
(*    whole database image.                                                 *)
(*  - A Python dict is a sequence of <<key, value>> pairs with distinct     *)
(*    keys (insertion order kept, as in Python).                            *)
(*  - Timestamps are naturals standing for fixed-width ISO-8601 strings,    *)
(*    whose text order is the numeric order.                                *)
(***************************************************************************)
EXTENDS Integers, Sequences, FiniteSets, TLC

VARIABLES
  family,      \* "LLMC" or "LLMD": which package handles the call
  op,          \* the running operation: "parse_stream", "write_stream", "write_file"
  pc,          \* position inside the handler
  fault,       \* the I/O failure the environment injects into this call
  stream,      \* the byte stream: the source of a parse, the sink of a write
  pos,         \* the stream position
  prior,       \* write_file: the destination path before the call
  conv,        \* write: the conversation handed to the writer
  header,      \* parse: the decoded header fields
  yaml_data,   \* parse: the stripped metadata text; write: the rendered text
  metadata,    \* parse: the normalised metadata mapping
  sqlite_data, \* the store section bytes
  parsed,      \* parse: messages and attachments read from the store
  tmpfiles,    \* staging artifacts present on disk
  tmp_path,    \* the staging artifact of this call (0: none yet)
  reached,     \* the steps of the handler that have run
  result,      \* how the call ended
  calls,       \* two calls running at once: each call's locals (<<>>: one call)
  tmpdir       \* two calls running at once: the staging files, owner and bytes

vars == <<family, op, pc, fault, stream, pos, prior, conv, header, yaml_data,
          metadata, sqlite_data, parsed, tmpfiles, tmp_path, reached, result,
          calls, tmpdir>>

----------------------------------------------------------------------------
(* Bounds of the model *)

MaxMsgs == 2      \* messages in a conversation handed to write
MaxRows == 2      \* message rows in a store handed to parse

----------------------------------------------------------------------------
(* Program constants *)

LLMC_HEADER_SIZE == 32
LLMD_HEADER_SIZE == 24
FORMAT_VERSION == 1
MAJOR_VERSION == 1
LLMC_APPLICATION_ID == 1280068931
LLMD_APPLICATION_ID == 1280068932

Families == {"LLMC", "LLMD"}

RawByte(n) == [k |-> "raw", v |-> n]

\* b"LLMC" / b"LLMD"
MAGIC(fam) ==
  IF fam = "LLMC" THEN <<RawByte(76), RawByte(76), RawByte(77), RawByte(67)>>
                  ELSE <<RawByte(76), RawByte(76), RawByte(77), RawByte(68)>>

SQLITE_APPLICATION_ID(fam) ==
  IF fam = "LLMC" THEN LLMC_APPLICATION_ID ELSE LLMD_APPLICATION_ID

header_size(fam) == IF fam = "LLMC" THEN LLMC_HEADER_SIZE ELSE LLMD_HEADER_SIZE

----------------------------------------------------------------------------
(* Generic helpers *)

Min(a, b) == IF a < b THEN a ELSE b

Range(s) == {s[i] : i \in DOMAIN s}

\* Python dict helpers: a dict is a sequence of <<key, value>> pairs
Keys(d) == {d[i][1] : i \in DOMAIN d}
HasKey(d, key) == key \in Keys(d)
Get(d, key) == d[CHOOSE i \in DOMAIN d : d[i][1] = key][2]
\* d[key] = val: replaces in place, or appends a new key at the end
Put(d, key, val) ==
  IF HasKey(d, key)
  THEN [i \in DOMAIN d |-> IF d[i][1] = key THEN <<key, val>> ELSE d[i]]
  ELSE Append(d, <<key, val>>)
\* d.pop(key): the dict without the key
Pop(d, key) == SelectSeq(d, LAMBDA p : p[1] # key)
\* dict equality ignores insertion order
DictEq(a, b) == Range(a) = Range(b)

----------------------------------------------------------------------------
(* BinaryIO: read(n) returns at most n bytes and advances; read() reads    *)
(* the remainder; seek(p) may go beyond the end.                           *)

ReadN(s, p, n) == IF p >= Len(s) THEN <<>> ELSE SubSeq(s, p + 1, Min(p + n, Len(s)))
Advance(s, p, n) == IF p >= Len(s) THEN p ELSE Min(p + n, Len(s))
ReadAll(s, p) == IF p >= Len(s) THEN <<>> ELSE SubSeq(s, p + 1, Len(s))

----------------------------------------------------------------------------
(* struct.pack / struct.unpack, little-endian unsigned *)

RECURSIVE PackLE(_, _)
PackLE(n, width) ==
  IF width = 0 THEN <<>> ELSE <<RawByte(n % 256)>> \o PackLE(n \div 256, width - 1)

RECURSIVE UnpackLE(_)
UnpackLE(bs) == IF bs = <<>> THEN 0 ELSE bs[1].v + 256 * UnpackLE(Tail(bs))

----------------------------------------------------------------------------
(* Header codec: LLMCParser._read_header / LLMDParser._read_header          *)

version_supported(version) == version = MAJOR_VERSION

\* A decoder that takes any format revision
any_format_version(format_version) == TRUE

format_version_supported(format_version) == format_version = 1

NoHeader == [err |-> "none", pos |-> 0, version |-> 0, format_version |-> 0,
             yaml_length |-> 0, sqlite_offset |-> 0]

\* The exception a short buffer makes struct.unpack raise
STRUCT_ERROR == "struct.error"

\* Reads the header field by field from position p.  err is the exception
\* raised inside _read_header ("none" when it returns); pos is the stream
\* position it leaves.  A short read of the magic fails the comparison; a
\* short read handed to struct.unpack raises struct.error; the reserved
\* bytes and (LLMC) the flag byte and padding are read and not looked at.
_read_header(fam, s, p) ==
  LET magic == ReadN(s, p, 4)
      p_magic == Advance(s, p, 4)
      vbytes == ReadN(s, p_magic, 1)
      p_version == Advance(s, p_magic, 1)
      version == UnpackLE(vbytes)
      p_reserved == Advance(s, p_version, 3)
      fbytes == ReadN(s, p_reserved, 4)
      p_format == Advance(s, p_reserved, 4)
      format_version == UnpackLE(fbytes)
      ybytes == ReadN(s, p_format, 4)
      p_yaml == Advance(s, p_format, 4)
      obytes == ReadN(s, p_yaml, 8)
      p_offset == Advance(s, p_yaml, 8)
      p_end == IF fam = "LLMC" THEN Advance(s, Advance(s, p_offset, 1), 7)
                               ELSE p_offset
      Fail(e, at) == [NoHeader EXCEPT !.err = e, !.pos = at]
  IN  IF magic # MAGIC(fam) THEN Fail("FormatError", p_magic)
      ELSE IF Len(vbytes) # 1 THEN Fail(STRUCT_ERROR, p_version)
      ELSE IF ~version_supported(version) THEN Fail("FormatError", p_version)
      ELSE IF Len(fbytes) # 4 THEN Fail(STRUCT_ERROR, p_format)
      ELSE IF ~format_version_supported(format_version) THEN Fail("FormatError", p_format)
      ELSE IF Len(ybytes) # 4 THEN Fail(STRUCT_ERROR, p_yaml)
      ELSE IF Len(obytes) # 8 THEN Fail(STRUCT_ERROR, p_offset)
      ELSE [err |-> "none", pos |-> p_end, version |-> version,
            format_version |-> format_version,
            yaml_length |-> UnpackLE(ybytes),
            sqlite_offset |-> UnpackLE(obytes)]

\* The bytes LLMCWriter._write_header / LLMDWriter._write_header hand to
\* stream.write, in order
_write_header(fam, yaml_length, sqlite_offset) ==
  MAGIC(fam) \o PackLE(MAJOR_VERSION, 1) \o <<RawByte(0), RawByte(0), RawByte(0)>>
    \o PackLE(FORMAT_VERSION, 4) \o PackLE(yaml_length, 4) \o PackLE(sqlite_offset, 8)
    \o (IF fam = "LLMC" THEN <<RawByte(0)>> \o [i \in 1..7 |-> RawByte(0)] ELSE <<>>)

----------------------------------------------------------------------------
(* The YAML capability.  A value is a string or a list; a list entry is a  *)
(* string or a mapping of strings.                                         *)

YStr(s) == [t |-> "str", s |-> s, l |-> <<>>]
YList(l) == [t |-> "list", s |-> "", l |-> l]
PStr(s) == [t |-> "str", s |-> s, m |-> <<>>]
PMap(m) == [t |-> "map", s |-> "", m |-> m]

\* Characters of the metadata text
KV(key, val) == [c |-> "kv", key |-> key, val |-> val]
NL == [c |-> "nl", key |-> "", val |-> YStr("")]
NUL == [c |-> "nul", key |-> "", val |-> YStr("")]

YamlByte(ch) == [k |-> "yaml", v |-> ch]

YamlWhitespace == {"nl"}

\* yaml.dump(metadata, default_flow_style=False, allow_unicode=True,
\* sort_keys=False): one line per key, in the mapping's own order
RECURSIVE yaml_dump(_)
yaml_dump(d) ==
  IF d = <<>> THEN <<>>
  ELSE <<KV(d[1][1], d[1][2]), NL>> \o yaml_dump(Tail(d))

\* str.encode("utf-8") / bytes.decode("utf-8") of the metadata text
encode_utf8(text) == [i \in DOMAIN text |-> YamlByte(text[i])]
decodable_utf8(bytes) == \A i \in DOMAIN bytes : bytes[i].k = "yaml"
decode_utf8(bytes) == [i \in DOMAIN bytes |-> bytes[i].v]

RECURSIVE lstrip(_, _)
\* str.lstrip(chars): drops the leading characters that are in chars
lstrip(text, chars) ==
  IF text # <<>> /\ text[1].c \in chars THEN lstrip(Tail(text), chars) ELSE text

RECURSIVE rstrip(_, _)
rstrip(text, chars) ==
  IF text # <<>> /\ text[Len(text)].c \in chars
  THEN rstrip(SubSeq(text, 1, Len(text) - 1), chars) ELSE text

\* yaml_text.lstrip('\x00').strip()
strip_yaml_text(text) == rstrip(lstrip(lstrip(text, {"nul"}), YamlWhitespace), YamlWhitespace)

RECURSIVE load_pairs(_, _)
\* the mapping built from the text's entries; a repeated key keeps its last value
load_pairs(text, acc) ==
  IF text = <<>> THEN acc
  ELSE load_pairs(Tail(text),
                  IF text[1].c = "kv" THEN Put(acc, text[1].key, text[1].val) ELSE acc)

\* yaml.safe_load: YAMLError on a character YAML does not accept (NUL),
\* None (not a mapping) for an empty document, else the mapping
yaml_safe_load(text) ==
  IF \E i \in DOMAIN text : text[i].c = "nul"
  THEN [err |-> "YAMLError", isdict |-> FALSE, data |-> <<>>]
  ELSE IF \A i \in DOMAIN text : text[i].c # "kv"
  THEN [err |-> "none", isdict |-> FALSE, data |-> <<>>]
  ELSE [err |-> "none", isdict |-> TRUE, data |-> load_pairs(text, <<>>)]

\* A reader that takes a short section for a whole one
any_yaml_length(section, yaml_length) == TRUE

yaml_length_matches(section, yaml_length) == Len(section) = yaml_length

\* LLMCParser._read_yaml_section: reads yaml_length bytes at p
_read_yaml_section(s, p, yaml_length) ==
  LET section == ReadN(s, p, yaml_length)
      p_after == Advance(s, p, yaml_length)
  IN  IF ~yaml_length_matches(section, yaml_length)
      THEN [err |-> "FormatError", why |-> "Incomplete YAML section",
            pos |-> p_after, text |-> <<>>]
      ELSE IF ~decodable_utf8(section)
      THEN [err |-> "FormatError", why |-> "Invalid UTF-8 in YAML section",
            pos |-> p_after, text |-> <<>>]
      ELSE [err |-> "none", why |-> "", pos |-> p_after,
            text |-> strip_yaml_text(decode_utf8(section))]

----------------------------------------------------------------------------
(* Metadata normaliser: LLMCParser._parse_metadata / LLMDParser._parse_metadata *)

required_fields == <<"version", "created_at", "participants">>

DEFAULT_PARTICIPANTS == YList(<<PStr("user"), PStr("assistant")>>)

\* "role" in participant, for the entries of the model: a mapping with the
\* key (no string entry of the model contains the text "role")
has_role(participant) == participant.t = "map" /\ HasKey(participant.m, "role")

\* A projection that finds no role in any record
no_roles(participants) == <<>>

RECURSIVE roles_of(_)
roles_of(participants) ==
  IF participants = <<>> THEN <<>>
  ELSE (IF has_role(participants[1])
        THEN <<PStr(Get(participants[1].m, "role"))>> ELSE <<>>)
       \o roles_of(Tail(participants))

rename_llmd_version(fam, data) ==
  IF fam = "LLMD" /\ HasKey(data, "llmd_version") /\ ~HasKey(data, "version")
  THEN Put(Pop(data, "llmd_version"), "version", Get(data, "llmd_version"))
  ELSE data

rename_created(data) ==
  IF HasKey(data, "created") /\ ~HasKey(data, "created_at")
  THEN Put(Pop(data, "created"), "created_at", Get(data, "created"))
  ELSE data

\* A normaliser that leaves the participants as the document gives them
participants_as_given(data) == data

reconcile_participants(data) ==
  IF ~HasKey(data, "participants") THEN Put(data, "participants", DEFAULT_PARTICIPANTS)
  ELSE LET p == Get(data, "participants")
       IN IF p.t = "list" /\ Len(p.l) > 0 /\ p.l[1].t = "map" /\ roles_of(p.l) # <<>>
          THEN Put(data, "participants", YList(roles_of(p.l)))
          ELSE data

\* A check that takes every document for a complete one
nothing_required(data) == {}

\* the required fields the normalised document lacks
missing_required(data) ==
  {required_fields[i] : i \in {j \in DOMAIN required_fields : ~HasKey(data, required_fields[j])}}

_parse_metadata(fam, yaml_text) ==
  LET loaded == yaml_safe_load(yaml_text)
      data == reconcile_participants(rename_created(rename_llmd_version(fam, loaded.data)))
  IN  IF loaded.err # "none"
      THEN [err |-> "FormatError", why |-> "Invalid YAML metadata", data |-> <<>>]
      ELSE IF ~loaded.isdict
      THEN [err |-> "FormatError", why |-> "YAML metadata must be a dictionary", data |-> <<>>]
      ELSE IF missing_required(data) # {}
      THEN [err |-> "FormatError", why |-> "Missing required field", data |-> <<>>]
      ELSE [err |-> "none", why |-> "", data |-> data]

----------------------------------------------------------------------------
(* Dynamically typed values (SQLite cells, Python ids): None/NULL, an      *)
(* integer or a string                                                     *)

VNone == [t |-> "null", i |-> 0, s |-> ""]
VInt(i) == [t |-> "int", i |-> i, s |-> ""]
VStr(s) == [t |-> "text", i |-> 0, s |-> s]

\* str(value), as an f-string formats it
py_str(val) ==
  IF val.t = "int" THEN ToString(val.i) ELSE IF val.t = "text" THEN val.s ELSE "None"

\* Python truthiness of a cell: None, 0 and "" are falsy
truthy(val) == (val.t = "int" /\ val.i # 0) \/ (val.t = "text" /\ val.s # "")

----------------------------------------------------------------------------
(* The JSON capability.  A JSON text is a sequence of tokens: punctuation  *)
(* (q = FALSE) and quoted strings (q = TRUE).  A text cell of the store is  *)
(* [null, text].                                                           *)

Punct(s) == [q |-> FALSE, s |-> s]
Quoted(s) == [q |-> TRUE, s |-> s]

NullText == [null |-> TRUE, text |-> <<>>]
Text(tokens) == [null |-> FALSE, text |-> tokens]
\* `if row[n]:` on a text cell: NULL and the empty string are falsy
text_truthy(cell) == ~cell.null /\ cell.text # <<>>

RECURSIVE join_items(_, _)
\* sep.join(items), each item a token sequence
join_items(items, sep) ==
  IF items = <<>> THEN <<>>
  ELSE IF Len(items) = 1 THEN items[1]
  ELSE items[1] \o <<sep>> \o join_items(Tail(items), sep)

\* json.dumps(list of str)
json_dumps_list(l) ==
  <<Punct("[")>> \o join_items([i \in DOMAIN l |-> <<Quoted(py_str(l[i]))>>], Punct(","))
                 \o <<Punct("]")>>

\* json.dumps(dict of str to str)
json_dumps_dict(d) ==
  <<Punct("{")>>
    \o join_items([i \in DOMAIN d |-> <<Quoted(d[i][1]), Punct(":"), Quoted(d[i][2])>>],
                  Punct(","))
    \o <<Punct("}")>>

RECURSIVE split_items(_, _, _)
\* the items of a token sequence between separators sep
split_items(tokens, sep, current) ==
  IF tokens = <<>> THEN <<current>>
  ELSE IF tokens[1] = sep THEN <<current>> \o split_items(Tail(tokens), sep, <<>>)
  ELSE split_items(Tail(tokens), sep, Append(current, tokens[1]))

JsonError == [err |-> "JSONDecodeError", kind |-> "", list |-> <<>>, dict |-> <<>>]

RECURSIVE pairs_to_dict(_, _)
pairs_to_dict(items, acc) ==
  IF items = <<>> THEN acc
  ELSE pairs_to_dict(Tail(items), Put(acc, items[1][1].s, items[1][3].s))

\* json.loads, for arrays of strings and objects of strings; anything else
\* the model holds is malformed and raises JSONDecodeError
json_loads(tokens) ==
  IF Len(tokens) < 2 THEN JsonError
  ELSE LET first == tokens[1]
           last == tokens[Len(tokens)]
           inner == SubSeq(tokens, 2, Len(tokens) - 1)
           items == IF inner = <<>> THEN <<>> ELSE split_items(inner, Punct(","), <<>>)
       IN IF first = Punct("[") /\ last = Punct("]")
          THEN IF \A i \in DOMAIN items : Len(items[i]) = 1 /\ items[i][1].q
               THEN [err |-> "none", kind |-> "list",
                     list |-> [i \in DOMAIN items |-> VStr(items[i][1].s)], dict |-> <<>>]
               ELSE JsonError
          ELSE IF first = Punct("{") /\ last = Punct("}")
          THEN IF \A i \in DOMAIN items :
                     /\ Len(items[i]) = 3
                     /\ items[i][1].q /\ items[i][2] = Punct(":") /\ items[i][3].q
               THEN [err |-> "none", kind |-> "dict", list |-> <<>>,
                     dict |-> pairs_to_dict(items, <<>>)]
               ELSE JsonError
          ELSE JsonError

----------------------------------------------------------------------------
(* Canonical entities (types.py).  A message or attachment dict is a record *)
(* with the set `keys` of the keys it holds; a key it does not hold has the *)
(* default value below, so that record equality is dict equality.          *)

required_msg_fields == <<"id", "role", "content", "timestamp">>

EmptyMessage == [keys |-> {}, id |-> VNone, role |-> "", content |-> "", timestamp |-> 0,
                 parent_id |-> VNone, attachments |-> <<>>, metadata |-> <<>>]

EmptyAttachment == [keys |-> {}, id |-> VNone, filename |-> "", content_type |-> "",
                    size |-> 0, data |-> <<>>, created_at |-> "", metadata |-> <<>>]

\* message[key] = value
SetId(m, v) == [m EXCEPT !.keys = @ \cup {"id"}, !.id = v]
SetRole(m, v) == [m EXCEPT !.keys = @ \cup {"role"}, !.role = v]
SetContent(m, v) == [m EXCEPT !.keys = @ \cup {"content"}, !.content = v]
SetTimestamp(m, v) == [m EXCEPT !.keys = @ \cup {"timestamp"}, !.timestamp = v]
SetParent(m, v) == [m EXCEPT !.keys = @ \cup {"parent_id"}, !.parent_id = v]
SetAttachments(m, v) == [m EXCEPT !.keys = @ \cup {"attachments"}, !.attachments = v]
SetMetadata(m, v) == [m EXCEPT !.keys = @ \cup {"metadata"}, !.metadata = v]
SetCreatedAt(a, v) == [a EXCEPT !.keys = @ \cup {"created_at"}, !.created_at = v]

Message(id, role, content, timestamp) ==
  SetTimestamp(SetContent(SetRole(SetId(EmptyMessage, id), role), content), timestamp)

Attachment(id, filename, content_type, size, data) ==
  [EmptyAttachment EXCEPT !.keys = {"id", "filename", "content_type", "size", "data"},
     !.id = id, !.filename = filename, !.content_type = content_type,
     !.size = size, !.data = data]

----------------------------------------------------------------------------
(* The embedded store.  A database image holds its application id, the     *)
(* columns of its two tables (no columns: no such table) and the rows in   *)
(* rowid order.  A row has every column of either dialect; the columns its *)
(* table lacks keep the defaults.                                          *)

MsgColsWrite == {"id", "role", "content", "timestamp", "parent_id", "attachments", "metadata"}
AttColsWrite == {"id", "filename", "content_type", "size", "data", "created_at", "metadata"}

EmptyDb == [app_id |-> 0, msg_cols |-> {}, att_cols |-> {}, msgs |-> <<>>, atts |-> <<>>]

MsgRow(id, role, content, timestamp, parent_id, attachments, meta, sequence) ==
  [id |-> id, role |-> role, content |-> content, timestamp |-> timestamp,
   parent_id |-> parent_id, attachments |-> attachments, metadata |-> meta,
   sequence |-> sequence]

AttRow(id, message_id, filename, content_type, size, data, created_at, checksum, meta) ==
  [id |-> id, message_id |-> message_id, filename |-> filename,
   content_type |-> content_type, size |-> size, data |-> data,
   created_at |-> created_at, checksum |-> checksum, metadata |-> meta]

DbByte(db) == [k |-> "db", v |-> db]

RECURSIVE sort_rows(_, _)
\* ORDER BY: a stable insertion sort of rows by the key tuple key[i]
sort_rows(rows, key) ==
  IF Len(rows) <= 1 THEN rows
  ELSE LET n == Len(rows)
           head == sort_rows(SubSeq(rows, 1, n - 1), [i \in 1..(n - 1) |-> key[i]])
           hkey == sort_rows(SubSeq(key, 1, n - 1), [i \in 1..(n - 1) |-> key[i]])
           before(a, b) == a[1] < b[1] \/ (a[1] = b[1] /\ a[2] <= b[2])
           at == Cardinality({i \in 1..(n - 1) : before(hkey[i], key[n])})
       IN SubSeq(head, 1, at) \o <<rows[n]>> \o SubSeq(head, at + 1, n - 1)

----------------------------------------------------------------------------
(* Relational schema adapter, read side: _parse_messages, _parse_attachments *)

\* The columns the alternate-dialect queries name
MsgColsAltQuery == {"id", "role", "content", "timestamp", "parent_id", "metadata", "sequence"}
AttColsAltJoin == {"id", "message_id"}
AttColsAltQuery == {"id", "filename", "content_type", "size", "data", "checksum", "metadata"}

\* conn.execute raises sqlite3.OperationalError ("no such table/column")
\* unless the tables hold every column the query names
alt_messages_query_ok(db) ==
  MsgColsAltQuery \subseteq db.msg_cols /\ AttColsAltJoin \subseteq db.att_cols
write_messages_query_ok(db) == MsgColsWrite \subseteq db.msg_cols
alt_attachments_query_ok(db) == AttColsAltQuery \subseteq db.att_cols
write_attachments_query_ok(db) == AttColsWrite \subseteq db.att_cols

MSG_PREFIX == "msg_"
ATT_PREFIX == "att_"

\* f"msg_{row[0]}" and f"att_{aid}"
\* A conversion that gives every message the same id
same_id_for_all(val) == VStr(MSG_PREFIX)

msg_id_of(val) == VStr(MSG_PREFIX \o py_str(val))
att_id_of(text) == VStr(ATT_PREFIX \o text)

\* GROUP_CONCAT(a.id) over the attachments joined to message row r: NULL when
\* none is joined, else the ids, comma separated, in rowid order
group_concat_ids(db, r) ==
  LET joined == SelectSeq(db.atts, LAMBDA a : a.message_id.t # "null" /\ a.message_id = r.id
                                             /\ a.id.t # "null")
  IN  IF joined = <<>> THEN NullText
      ELSE Text(join_items([i \in DOMAIN joined |-> <<Punct(py_str(joined[i].id))>>],
                           Punct(",")))

\* [f"att_{aid}" for aid in row[6].split(',') if aid]
attachment_ids_of(cell) ==
  LET parts == split_items(cell.text, Punct(","), <<>>)
      kept == SelectSeq(parts, LAMBDA part : part # <<>>)
  IN  [i \in DOMAIN kept |-> att_id_of(kept[i][1].s)]

\* One row of the alternate-dialect query as a message; a malformed metadata
\* JSON is passed over
alt_message(db, r) ==
  LET base == Message(msg_id_of(r.id), r.role, r.content, r.timestamp)
      with_parent == IF r.parent_id.t # "null"
                     THEN SetParent(base, msg_id_of(r.parent_id)) ELSE base
      ids_cell == group_concat_ids(db, r)
      with_atts == IF text_truthy(ids_cell) /\ attachment_ids_of(ids_cell) # <<>>
                   THEN SetAttachments(with_parent, attachment_ids_of(ids_cell))
                   ELSE with_parent
      loaded == json_loads(r.metadata.text)
  IN  IF text_truthy(r.metadata) /\ loaded.err = "none"
      THEN SetMetadata(with_atts, loaded.dict) ELSE with_atts

\* GROUP BY m.id, ... ORDER BY m.sequence, m.timestamp
alt_rows_in_order(db) ==
  LET grouped == sort_rows(db.msgs, [i \in DOMAIN db.msgs |-> <<db.msgs[i].id.i, 0>>])
  IN  sort_rows(grouped, [i \in DOMAIN grouped |-> <<grouped[i].sequence, grouped[i].timestamp>>])

\* ORDER BY timestamp
write_rows_in_order(db) ==
  sort_rows(db.msgs, [i \in DOMAIN db.msgs |-> <<db.msgs[i].timestamp, 0>>])

\* json.loads of a JSON column of the write schema raises on a malformed text
write_row_json_ok(r) ==
  /\ text_truthy(r.attachments) => json_loads(r.attachments.text).err = "none"
  /\ text_truthy(r.metadata) => json_loads(r.metadata.text).err = "none"

\* A conversion of write-schema rows that tags the id as the alternate
\* dialect's does
tagged_write_message(r) == Message(msg_id_of(r.id), r.role, r.content, r.timestamp)

\* One row of the write-schema query as a message
write_message(r) ==
  LET base == Message(r.id, r.role, r.content, r.timestamp)
      with_parent == IF r.parent_id.t # "null" THEN SetParent(base, r.parent_id) ELSE base
      with_atts == IF text_truthy(r.attachments)
                   THEN SetAttachments(with_parent, json_loads(r.attachments.text).list)
                   ELSE with_parent
  IN  IF text_truthy(r.metadata)
      THEN SetMetadata(with_atts, json_loads(r.metadata.text).dict) ELSE with_atts

\* The write-schema branch: LLMCParser._parse_messages lines 265-296,
\* LLMDParser._parse_messages
write_schema_messages(db) ==
  LET rows == write_rows_in_order(db)
  IN  IF \E i \in DOMAIN rows : ~write_row_json_ok(rows[i])
      THEN [err |-> "JSONDecodeError", why |-> "", messages |-> <<>>]
      ELSE [err |-> "none", why |-> "",
            messages |-> [i \in DOMAIN rows |-> write_message(rows[i])]]

\* The alternate-dialect branch: LLMCParser._parse_messages lines 225-261
alt_schema_messages(db) ==
  LET rows == alt_rows_in_order(db)
  IN  [err |-> "none", why |-> "", messages |-> [i \in DOMAIN rows |-> alt_message(db, rows[i])]]

\* Which families probe the alternate dialect before the write schema
probes_alt_dialect(fam) == fam = "LLMC"

_parse_messages(fam, db) ==
  IF probes_alt_dialect(fam) /\ alt_messages_query_ok(db) THEN alt_schema_messages(db)
  ELSE IF write_messages_query_ok(db) THEN write_schema_messages(db)
  ELSE IF probes_alt_dialect(fam)
  THEN [err |-> "FormatError", why |-> "Unsupported database schema", messages |-> <<>>]
  ELSE [err |-> "sqlite3.OperationalError", why |-> "", messages |-> <<>>]

alt_attachment(r) ==
  LET base == Attachment(att_id_of(py_str(r.id)), r.filename, r.content_type, r.size, r.data)
      loaded == json_loads(r.metadata.text)
  IN  IF text_truthy(r.metadata) /\ loaded.err = "none"
      THEN SetMetadata(base, loaded.dict) ELSE base

write_attachment(r) ==
  LET base == Attachment(r.id, r.filename, r.content_type, r.size, r.data)
      with_created == IF truthy(r.created_at) THEN SetCreatedAt(base, r.created_at.s) ELSE base
  IN  IF text_truthy(r.metadata)
      THEN SetMetadata(with_created, json_loads(r.metadata.text).dict) ELSE with_created

write_schema_attachments(db) ==
  IF \E i \in DOMAIN db.atts :
       text_truthy(db.atts[i].metadata) /\ json_loads(db.atts[i].metadata.text).err # "none"
  THEN [err |-> "JSONDecodeError", why |-> "", attachments |-> <<>>]
  ELSE [err |-> "none", why |-> "",
        attachments |-> [i \in DOMAIN db.atts |-> write_attachment(db.atts[i])]]

_parse_attachments(fam, db) ==
  IF probes_alt_dialect(fam) /\ alt_attachments_query_ok(db)
  THEN [err |-> "none", why |-> "",
        attachments |-> [i \in DOMAIN db.atts |-> alt_attachment(db.atts[i])]]
  ELSE IF write_attachments_query_ok(db) THEN write_schema_attachments(db)
  ELSE [err |-> "none", why |-> "", attachments |-> <<>>]

----------------------------------------------------------------------------
(* _parse_sqlite_data: staging file, connection, application id, rows      *)

\* What sqlite3 makes of the staged bytes: a file of no byte or of one byte
\* is an empty database (application id 0, no tables); a file that begins
\* with the image is that database, whatever follows the image; anything
\* else is "file is not a database".  A unit of the stream is one byte
\* unless it is a metadata line or the image.
one_byte(unit) == unit.k = "raw" \/ (unit.k = "yaml" /\ unit.v.c \in {"nl", "nul"})
holds_image(bytes) == bytes # <<>> /\ bytes[1].k = "db"
is_database(bytes) ==
  \/ bytes = <<>>
  \/ Len(bytes) = 1 /\ one_byte(bytes[1])
  \/ holds_image(bytes)
open_database(bytes) == IF holds_image(bytes) THEN bytes[1].v ELSE EmptyDb

\* A check that takes every application id for the family's own
any_application_id(fam, db) == TRUE

application_id_ok(fam, db) == db.app_id = SQLITE_APPLICATION_ID(fam)

\* A loader that takes any staged bytes for a store without rows
load_nothing(fam, bytes, connect_fails) ==
  [err |-> "none", why |-> "", messages |-> <<>>, attachments |-> <<>>,
   unlinked |-> TRUE, handled |-> ""]

\* Lines 198-220 of LLMCParser._parse_sqlite_data, with the staging file
\* filled: err is the exception that leaves the function, unlinked whether
\* os.unlink(tmp_path) ran.  `connect_fails` is sqlite3.connect raising: the
\* handler turns it into a format error, and the finally clause then fails on
\* the unbound `conn` before it reaches os.unlink.  `handled` is the error the
\* except clause raised when the finally clause raised another in its place.
load_store(fam, bytes, connect_fails) ==
  LET db == open_database(bytes)
      msgs == _parse_messages(fam, db)
      atts == _parse_attachments(fam, db)
      Out(e, why, m, a, u) ==
        [err |-> e, why |-> why, messages |-> m, attachments |-> a, unlinked |-> u,
         handled |-> IF connect_fails THEN "FormatError" ELSE ""]
      Caught(e) == IF e = "sqlite3.OperationalError" THEN "FormatError" ELSE e
  IN  IF connect_fails THEN Out("UnboundLocalError", "", <<>>, <<>>, FALSE)
      ELSE IF ~is_database(bytes)
      THEN Out("FormatError", "SQLite parsing error", <<>>, <<>>, TRUE)
      ELSE IF ~application_id_ok(fam, db)
      THEN Out("FormatError", "Invalid SQLite application ID", <<>>, <<>>, TRUE)
      ELSE IF msgs.err # "none" THEN Out(Caught(msgs.err), msgs.why, <<>>, <<>>, TRUE)
      ELSE IF atts.err # "none" THEN Out(Caught(atts.err), atts.why, <<>>, <<>>, TRUE)
      ELSE Out("none", "", msgs.messages, atts.attachments, TRUE)

----------------------------------------------------------------------------
(* Validation layer: LLMCWriter._validate_conversation                     *)

\* A conversation dict: the set of its keys and their values
Conversation(keys, meta, messages, attachments) ==
  [keys |-> keys, metadata |-> meta, messages |-> messages, attachments |-> attachments]

NoConversation == Conversation({}, <<>>, <<>>, <<>>)

Valid == [err |-> "none", what |-> "", index |-> -1]
Invalid(what, index) == [err |-> "ValidationError", what |-> what, index |-> index]

\* A validator that does not look at the metadata's fields
no_missing_metadata_fields(conversation) == {}

missing_metadata_fields(conversation) ==
  {i \in DOMAIN required_fields : ~HasKey(conversation.metadata, required_fields[i])}

\* A validator that does not look at the messages' fields
no_missing_message_fields(conversation) == {}

\* <<i, j>>: message i (from 1) lacks required field j
missing_message_fields(conversation) ==
  {ij \in (DOMAIN conversation.messages) \X (DOMAIN required_msg_fields) :
     required_msg_fields[ij[2]] \notin conversation.messages[ij[1]].keys}

\* The first failure in the order the checks run; message indexes are
\* reported from 0, as enumerate() counts them
_validate_conversation(conversation) ==
  IF "metadata" \notin conversation.keys THEN Invalid("metadata section", -1)
  ELSE IF "messages" \notin conversation.keys THEN Invalid("messages section", -1)
  ELSE IF missing_metadata_fields(conversation) # {}
  THEN LET i == CHOOSE i \in missing_metadata_fields(conversation) :
                  \A j \in missing_metadata_fields(conversation) : i <= j
       IN Invalid(required_fields[i], -1)
  ELSE IF missing_message_fields(conversation) # {}
  THEN LET bad == missing_message_fields(conversation)
           first == CHOOSE ij \in bad :
                      \A o \in bad : ij[1] < o[1] \/ (ij[1] = o[1] /\ ij[2] <= o[2])
       IN Invalid(required_msg_fields[first[2]], first[1] - 1)
  ELSE Valid

----------------------------------------------------------------------------
(* Relational schema adapter, write side: _generate_sqlite                 *)

\* _insert_messages: the row of one message; an absent or empty attachments
\* list and an absent or empty metadata dict are stored as NULL
\* A column declared TEXT stores an integer as its decimal text
text_affinity(val) == IF val.t = "int" THEN VStr(ToString(val.i)) ELSE val

message_row(m) ==
  MsgRow(text_affinity(m.id), m.role, m.content, m.timestamp,
         IF "parent_id" \in m.keys THEN text_affinity(m.parent_id) ELSE VNone,
         IF "attachments" \in m.keys /\ m.attachments # <<>>
           THEN Text(json_dumps_list(m.attachments)) ELSE NullText,
         IF "metadata" \in m.keys /\ m.metadata # <<>>
           THEN Text(json_dumps_dict(m.metadata)) ELSE NullText,
         0)

\* _insert_attachments: the row of one attachment
attachment_row(a) ==
  AttRow(text_affinity(a.id), VNone, a.filename, a.content_type, a.size, a.data,
         IF "created_at" \in a.keys THEN VStr(a.created_at) ELSE VNone,
         "",
         IF "metadata" \in a.keys /\ a.metadata # <<>>
           THEN Text(json_dumps_dict(a.metadata)) ELSE NullText)

\* PRIMARY KEY: an INSERT of an id the table holds raises sqlite3.IntegrityError
primary_keys_unique(rows) ==
  \A i, j \in DOMAIN rows : rows[i].id = rows[j].id => i = j

\* The database _generate_sqlite builds, or the sqlite3.Error it turns into
\* a format error
_generate_sqlite(fam, conversation) ==
  LET msgs == [i \in DOMAIN conversation.messages |-> message_row(conversation.messages[i])]
      atts == IF "attachments" \in conversation.keys
              THEN [i \in DOMAIN conversation.attachments |->
                      attachment_row(conversation.attachments[i])]
              ELSE <<>>
  IN  IF ~primary_keys_unique(msgs) \/ ~primary_keys_unique(atts)
      THEN [err |-> "FormatError", why |-> "SQLite generation error", data |-> <<>>]
      ELSE [err |-> "none", why |-> "",
            data |-> <<DbByte([app_id |-> SQLITE_APPLICATION_ID(fam),
                               msg_cols |-> MsgColsWrite, att_cols |-> AttColsWrite,
                               msgs |-> msgs, atts |-> atts])>>]

\* yaml_data.encode("utf-8") of _generate_yaml(conversation["metadata"])
_generate_yaml(meta) == encode_utf8(yaml_dump(meta))

\* An offset counted from the end of the header
offset_without_header(fam, yaml_bytes) == Len(yaml_bytes)

\* sqlite_offset = header_size + len(yaml_bytes)
sqlite_offset_of(fam, yaml_bytes) == header_size(fam) + Len(yaml_bytes)

----------------------------------------------------------------------------
(* Outcomes.  result.kind is "none" while the call runs, "ok" when it      *)
(* returns, else the class of the error it raises; cause is the class of   *)
(* the exception that was wrapped, "" when the error was raised as is.     *)

\* A path of the file system: no file, or a file with its bytes
NoFile == [exists |-> FALSE, data |-> <<>>]
File(data) == [exists |-> TRUE, data |-> data]

Running == [kind |-> "none", cause |-> "", why |-> "", index |-> -1]
Returned == [kind |-> "ok", cause |-> "", why |-> "", index |-> -1]

\* parse_stream's handler: typed parse and format errors pass, anything
\* else is wrapped in a parse error
parse_stream_raises(e, why) ==
  IF e \in {"ParseError", "FormatError"}
  THEN [kind |-> e, cause |-> "", why |-> why, index |-> -1]
  ELSE [kind |-> "ParseError", cause |-> e, why |-> "Unexpected error during parsing", index |-> -1]

\* write_stream's handler: typed validation and format errors pass,
\* anything else is wrapped in a format error
write_stream_raises(e, why, index) ==
  IF e \in {"ValidationError", "FormatError"}
  THEN [kind |-> e, cause |-> "", why |-> why, index |-> index]
  ELSE [kind |-> "FormatError", cause |-> e, why |-> "Unexpected error during writing", index |-> -1]

\* A generator of names that hands out a name on disk when there is one
used_tmp_name == CHOOSE n \in tmpfiles \cup {Cardinality(tmpfiles) + 1} : TRUE

\* tempfile.NamedTemporaryFile: a name no file on disk has
fresh_tmp_name == CHOOSE n \in 1..(Cardinality(tmpfiles) + 1) : n \notin tmpfiles

----------------------------------------------------------------------------
(* parse_stream, step by step                                              *)

ParseOps == {"parse_stream", "parse_file"}
WriteOps == {"write_stream", "write_file"}

\* parse_file's handler (lines 48-49): an OSError of open() becomes a parse
\* error that names the path
parse_file_raises(e) ==
  [kind |-> "ParseError", cause |-> e, why |-> "Failed to read file", index |-> -1]

\* write_file's handler (writer.py lines 47-48): an OSError of open() becomes
\* a format error that names the path
write_file_raises(e) ==
  [kind |-> "FormatError", cause |-> e, why |-> "Failed to write file", index |-> -1]

\* The faults of a path: it is a directory, it lies in a directory that does
\* not exist, it leads through a file
PathFaults == {"isdir", "noparent", "notdir"}

\* open(file_path, mode): the OSError it raises, "" when the file opens.
\* Mode "rb" needs the file to be there, mode "wb" creates it.
open_raises(mode) ==
  IF fault = "isdir" THEN "IsADirectoryError"
  ELSE IF fault = "notdir" THEN "NotADirectoryError"
  ELSE IF fault = "noparent" THEN "FileNotFoundError"
  ELSE IF mode = "rb" /\ ~prior.exists THEN "FileNotFoundError"
  ELSE ""

\* parse_file lines 45-47: open(file_path, "rb"), then parse_stream on the
\* file.  The path holds a file, or nothing, or has one of the PathFaults.
P_Open ==
  /\ op = "parse_file" /\ pc = "p_open"
  /\ IF open_raises("rb") # ""
     THEN /\ stream' = stream /\ pc' = "done"
          /\ result' = parse_file_raises(open_raises("rb"))
          /\ reached' = reached
     ELSE /\ stream' = prior.data /\ pc' = "p_header"
          /\ result' = result
          /\ reached' = reached \cup {"open"}
  /\ pos' = 0
  /\ UNCHANGED <<calls, tmpdir, family, op, fault, prior, conv, header, yaml_data,
                 metadata, sqlite_data, parsed, tmpfiles, tmp_path>>

\* line 66: header = self._read_header(stream)
P_ReadHeader ==
  /\ op \in ParseOps /\ pc = "p_header"
  /\ LET h == _read_header(family, stream, pos)
     IN  /\ pos' = h.pos
         /\ IF h.err = "none"
            THEN /\ header' = h /\ pc' = "p_yaml" /\ result' = result
            ELSE /\ header' = header /\ pc' = "done"
                 /\ result' = parse_stream_raises(h.err, "")
  /\ reached' = reached \cup {"header"}
  /\ UNCHANGED <<calls, tmpdir, family, op, fault, stream, prior, conv, yaml_data, metadata,
                 sqlite_data, parsed, tmpfiles, tmp_path>>

\* line 69: yaml_data = self._read_yaml_section(stream, header["yaml_length"])
P_ReadYaml ==
  /\ op \in ParseOps /\ pc = "p_yaml"
  /\ LET y == _read_yaml_section(stream, pos, header.yaml_length)
     IN  /\ pos' = y.pos
         /\ IF y.err = "none"
            THEN /\ yaml_data' = y.text /\ pc' = "p_metadata" /\ result' = result
            ELSE /\ yaml_data' = yaml_data /\ pc' = "done"
                 /\ result' = parse_stream_raises(y.err, y.why)
  /\ reached' = reached \cup {"yaml"}
  /\ UNCHANGED <<calls, tmpdir, family, op, fault, stream, prior, conv, header, metadata,
                 sqlite_data, parsed, tmpfiles, tmp_path>>

\* line 70: metadata = self._parse_metadata(yaml_data)
P_ParseMetadata ==
  /\ op \in ParseOps /\ pc = "p_metadata"
  /\ LET m == _parse_metadata(family, yaml_data)
     IN  IF m.err = "none"
         THEN /\ metadata' = m.data /\ pc' = "p_store" /\ result' = result
         ELSE /\ metadata' = metadata /\ pc' = "done"
              /\ result' = parse_stream_raises(m.err, m.why)
  /\ reached' = reached \cup {"metadata"}
  /\ UNCHANGED <<calls, tmpdir, family, op, fault, stream, pos, prior, conv, header, yaml_data,
                 sqlite_data, parsed, tmpfiles, tmp_path>>

\* A reader that takes the store to follow the metadata block directly
end_of_metadata(fam, h) == header_size(fam) + h.yaml_length

\* line 73: the position parse_stream seeks to before it reads the store
store_start(fam, h) == h.sqlite_offset

\* lines 73-74: stream.seek(header["sqlite_offset"]); sqlite_data = stream.read()
P_ReadStore ==
  /\ op \in ParseOps /\ pc = "p_store"
  /\ sqlite_data' = ReadAll(stream, store_start(family, header))
  /\ pos' = IF store_start(family, header) >= Len(stream)
            THEN store_start(family, header) ELSE Len(stream)
  /\ pc' = "p_stage"
  /\ reached' = reached \cup {"store"}
  /\ UNCHANGED <<calls, tmpdir, family, op, fault, stream, prior, conv, header, yaml_data, metadata,
                 parsed, tmpfiles, tmp_path, result>>

\* _parse_sqlite_data lines 194-196: the staging file is created and filled.
\* A failing write (fault "fill") leaves the with block with the file on disk.
P_Stage ==
  /\ op \in ParseOps /\ pc = "p_stage"
  /\ tmp_path' = fresh_tmp_name
  /\ tmpfiles' = tmpfiles \cup {fresh_tmp_name}
  /\ IF fault = "fill"
     THEN /\ pc' = "done" /\ result' = parse_stream_raises("OSError", "")
     ELSE /\ pc' = "p_load" /\ result' = result
  /\ reached' = reached \cup {"stage"}
  /\ UNCHANGED <<calls, tmpdir, family, op, fault, stream, pos, prior, conv, header, yaml_data,
                 metadata, sqlite_data, parsed>>

\* _parse_sqlite_data lines 198-220
P_Load ==
  /\ op \in ParseOps /\ pc = "p_load"
  /\ LET l == load_store(family, sqlite_data, fault = "connect")
     IN  /\ tmpfiles' = IF l.unlinked THEN tmpfiles \ {tmp_path} ELSE tmpfiles
         /\ IF l.err = "none"
            THEN /\ parsed' = Conversation({}, <<>>, l.messages, l.attachments)
                 /\ pc' = "p_return" /\ result' = result
            ELSE /\ parsed' = parsed /\ pc' = "done"
                 /\ result' = parse_stream_raises(l.err, l.why)
  /\ reached' = reached \cup {"load"}
  /\ UNCHANGED <<calls, tmpdir, family, op, fault, stream, pos, prior, conv, header, yaml_data,
                 metadata, sqlite_data, tmp_path>>

\* lines 80-88: the conversation; "attachments" only when there are any
P_Return ==
  /\ op \in ParseOps /\ pc = "p_return"
  /\ parsed' = Conversation({"metadata", "messages"}
                              \cup (IF parsed.attachments # <<>> THEN {"attachments"} ELSE {}),
                            metadata, parsed.messages, parsed.attachments)
  /\ pc' = "done"
  /\ result' = Returned
  /\ reached' = reached \cup {"return"}
  /\ UNCHANGED <<calls, tmpdir, family, op, fault, stream, pos, prior, conv, header, yaml_data,
                 metadata, sqlite_data, tmpfiles, tmp_path>>

----------------------------------------------------------------------------
(* write_file and write_stream, step by step                               *)

\* write_file lines 44-48: open(file_path, "wb") creates the file or empties
\* it, and write_stream goes on with the file; when open() raises, the
\* handler raises the format error, nothing is validated and no file appears
W_Open ==
  /\ op = "write_file" /\ pc = "w_open"
  /\ IF open_raises("wb") # ""
     THEN /\ pc' = "done"
          /\ result' = write_file_raises(open_raises("wb"))
          /\ reached' = reached
     ELSE /\ pc' = "w_validate"
          /\ result' = result
          /\ reached' = reached \cup {"open"}
  /\ stream' = <<>>
  /\ pos' = 0
  /\ UNCHANGED <<calls, tmpdir, family, op, fault, prior, conv, header, yaml_data, metadata,
                 sqlite_data, parsed, tmpfiles, tmp_path>>

\* line 63: self._validate_conversation(conversation)
W_Validate ==
  /\ op \in WriteOps /\ pc = "w_validate"
  /\ LET v == _validate_conversation(conv)
     IN  IF v.err = "none"
         THEN pc' = "w_yaml" /\ result' = result
         ELSE pc' = "done" /\ result' = write_stream_raises(v.err, v.what, v.index)
  /\ reached' = reached \cup {"validate"}
  /\ UNCHANGED <<calls, tmpdir, family, op, fault, stream, pos, prior, conv, header, yaml_data,
                 metadata, sqlite_data, parsed, tmpfiles, tmp_path>>

\* lines 66-67: the metadata text
W_GenerateYaml ==
  /\ op \in WriteOps /\ pc = "w_yaml"
  /\ yaml_data' = yaml_dump(conv.metadata)
  /\ pc' = "w_stage"
  /\ reached' = reached \cup {"yaml"}
  /\ UNCHANGED <<calls, tmpdir, family, op, fault, stream, pos, prior, conv, header, metadata,
                 sqlite_data, parsed, tmpfiles, tmp_path, result>>

\* _generate_sqlite lines 159-160: the staging file and the connection
W_Stage ==
  /\ op \in WriteOps /\ pc = "w_stage"
  /\ tmp_path' = fresh_tmp_name
  /\ tmpfiles' = tmpfiles \cup {fresh_tmp_name}
  /\ pc' = "w_sqlite"
  /\ reached' = reached \cup {"stage"}
  /\ UNCHANGED <<calls, tmpdir, family, op, fault, stream, pos, prior, conv, header, yaml_data,
                 metadata, sqlite_data, parsed, result>>

\* _generate_sqlite lines 162-189; leaving the with block removes the file
W_GenerateSqlite ==
  /\ op \in WriteOps /\ pc = "w_sqlite"
  /\ LET g == _generate_sqlite(family, conv)
     IN  IF g.err = "none"
         THEN /\ sqlite_data' = g.data /\ pc' = "w_header" /\ result' = result
         ELSE /\ sqlite_data' = sqlite_data /\ pc' = "done"
              /\ result' = write_stream_raises(g.err, g.why, -1)
  /\ tmpfiles' = tmpfiles \ {tmp_path}
  /\ reached' = reached \cup {"sqlite"}
  /\ UNCHANGED <<calls, tmpdir, family, op, fault, stream, pos, prior, conv, header, yaml_data,
                 metadata, parsed, tmp_path>>

\* The bytes lines 73-77 write: the header
header_bytes(fam, text) ==
  _write_header(fam, Len(encode_utf8(text)), sqlite_offset_of(fam, encode_utf8(text)))

\* lines 73-77
W_WriteHeader ==
  /\ op \in WriteOps /\ pc = "w_header"
  /\ stream' = stream \o header_bytes(family, yaml_data)
  /\ pos' = Len(stream')
  /\ pc' = "w_write_yaml"
  /\ reached' = reached \cup {"write_header"}
  /\ UNCHANGED <<calls, tmpdir, family, op, fault, prior, conv, header, yaml_data, metadata,
                 sqlite_data, parsed, tmpfiles, tmp_path, result>>

\* line 80: stream.write(yaml_bytes)
W_WriteYaml ==
  /\ op \in WriteOps /\ pc = "w_write_yaml"
  /\ stream' = stream \o encode_utf8(yaml_data)
  /\ pos' = Len(stream')
  /\ pc' = "w_write_sqlite"
  /\ reached' = reached \cup {"write_yaml"}
  /\ UNCHANGED <<calls, tmpdir, family, op, fault, prior, conv, header, yaml_data, metadata,
                 sqlite_data, parsed, tmpfiles, tmp_path, result>>

\* line 83: stream.write(sqlite_data), and the handler returns
W_WriteSqlite ==
  /\ op \in WriteOps /\ pc = "w_write_sqlite"
  /\ stream' = stream \o sqlite_data
  /\ pos' = Len(stream')
  /\ pc' = "done"
  /\ result' = Returned
  /\ reached' = reached \cup {"write_sqlite"}
  /\ UNCHANGED <<calls, tmpdir, family, op, fault, prior, conv, header, yaml_data, metadata,
                 sqlite_data, parsed, tmpfiles, tmp_path>>

\* Where the sink stood when the write was called: the end of the bytes it
\* held, or 0 for a file the write opened itself
sink_start == IF op = "write_stream" /\ prior.exists THEN Len(prior.data) ELSE 0

\* The caller of a write that returned parses what was written: the path
\* of write_file with parse_file (tests/test_basic.py lines 57-65), the
\* sink of write_stream from the position the write began at
Reparse ==
  /\ op \in WriteOps /\ pc = "done" /\ result.kind = "ok"
  /\ op' = IF op = "write_file" THEN "parse_file" ELSE "parse_stream"
  /\ pc' = IF op = "write_file" THEN "p_open" ELSE "p_header"
  /\ prior' = IF op = "write_file" THEN File(stream) ELSE prior
  /\ stream' = IF op = "write_file" THEN <<>> ELSE stream
  /\ pos' = sink_start
  /\ result' = Running
  /\ yaml_data' = <<>>
  /\ sqlite_data' = <<>>
  /\ tmp_path' = 0
  /\ reached' = {"reparse"} \cup (reached \cap {"rewrite", "again"})
                   \cup (IF sink_start > 0 THEN {"held"} ELSE {})
  /\ UNCHANGED <<calls, tmpdir, family, fault, conv, header, metadata, parsed, tmpfiles>>

\* The round trip of test_round_trip_with_javascript_file: the conversation
\* a first parse returned is handed to write_file with a fresh, empty
\* temporary file as its destination.  The first parse is that of a
\* container handed in, or ("again") that of a container just written.
Rewrite ==
  /\ op \in ParseOps /\ pc = "done" /\ result.kind = "ok"
  /\ "rewrite" \notin reached
  /\ op' = "write_file"
  /\ pc' = "w_open"
  /\ conv' = parsed
  /\ prior' = File(<<>>)
  /\ stream' = <<>>
  /\ pos' = 0
  /\ header' = NoHeader
  /\ yaml_data' = <<>>
  /\ metadata' = <<>>
  /\ sqlite_data' = <<>>
  /\ parsed' = NoConversation
  /\ tmp_path' = 0
  /\ result' = Running
  /\ reached' = {"rewrite"} \cup (IF "reparse" \in reached THEN {"again"} ELSE {})
  /\ UNCHANGED <<calls, tmpdir, family, fault, tmpfiles>>

----------------------------------------------------------------------------
(* The calls explored.  A write call gets a conversation; a parse call     *)
(* gets a container: a written one, damaged in its header, cut short, or   *)
(* carrying a store some other producer built.                             *)

\* The destination of the write as the file system or the sink holds it
destination == IF op = "write_file" /\ "open" \notin reached THEN prior ELSE File(stream)

BaseMetadata ==
  << <<"version", YStr("0.1")>>, <<"created_at", YStr("2024-01-15T10:30:00Z")>>,
     <<"participants", DEFAULT_PARTICIPANTS>>, <<"title", YStr("Test")>> >>

WriteMetadataInputs == {BaseMetadata, Pop(BaseMetadata, "version")}

MessageKinds == {"plain", "late", "tie", "empties", "full", "no_content", "dup"}

\* The n-th message of a conversation handed to a writer
MessageInput(n, kind) ==
  LET id == VStr(MSG_PREFIX \o ToString(IF kind = "dup" THEN 1 ELSE n))
      role == IF n % 2 = 1 THEN "user" ELSE "assistant"
      ts == IF kind = "late" THEN 2 * MaxMsgs + 1 - n ELSE IF kind = "tie" THEN 1 ELSE n
      base == Message(id, role, "Hello", ts)
  IN  IF kind = "empties"
      THEN SetMetadata(SetAttachments(SetParent(base, VNone), <<>>), <<>>)
      ELSE IF kind = "full"
      THEN SetMetadata(SetAttachments(SetParent(base, VStr("msg_1")), <<VStr("att_1")>>),
                       << <<"model", "m1">> >>)
      ELSE IF kind = "no_content"
      THEN [base EXCEPT !.keys = @ \ {"content"}, !.content = ""]
      ELSE base

RECURSIVE MessageInputs(_)
\* Message lists of length n
MessageInputs(n) ==
  IF n = 0 THEN {<<>>}
  ELSE {Append(ms, MessageInput(n, kind)) : ms \in MessageInputs(n - 1), kind \in MessageKinds}

AttachmentInput == Attachment(VStr("att_1"), "a.txt", "text/plain", 2, <<104, 105>>)

WriteInputs ==
  {Conversation({"metadata", "messages"} \cup ks[1], meta, ms, ks[2]) :
     meta \in WriteMetadataInputs,
     ms \in UNION {MessageInputs(n) : n \in 0..MaxMsgs},
     ks \in {<<{}, <<>>>>, <<{"attachments"}, <<>>>>, <<{"attachments"}, <<AttachmentInput>>>>}}

\* Conversations with any of the two sections, of the required metadata
\* fields and of each message's required fields missing
DefectiveInputs ==
  LET drops == {{}, {"id"}, {"content"}, {"role", "timestamp"}, {"id", "timestamp"}}
      lacking(m, ks) == [m EXCEPT !.keys = @ \ ks]
      metas == {<<>>, BaseMetadata, Pop(BaseMetadata, "version"),
                Pop(BaseMetadata, "created_at"), Pop(BaseMetadata, "participants"),
                Pop(Pop(BaseMetadata, "version"), "participants"),
                Pop(Pop(BaseMetadata, "created_at"), "participants")}
  IN  {Conversation(ks, meta, [i \in 1..MaxMsgs |-> lacking(MessageInput(i, "plain"), d[i])],
                    <<>>) :
         ks \in SUBSET {"metadata", "messages"}, meta \in metas,
         d \in [1..MaxMsgs -> drops]}

WriteSessions ==
  {[op |-> o[1], fault |-> "none", stream |-> <<>>, prior |-> o[2], conv |-> c] :
     o \in {<<"write_stream", NoFile>>, <<"write_file", NoFile>>,
            <<"write_file", File(<<RawByte(0)>>)>>},
     c \in WriteInputs}
  \cup
  {[op |-> "write_stream", fault |-> "none", stream |-> <<>>, prior |-> NoFile, conv |-> c] :
     c \in DefectiveInputs}
  \cup
  {[op |-> "write_file", fault |-> f, stream |-> <<>>, prior |-> NoFile, conv |-> c] :
     f \in PathFaults, c \in WriteInputs}

\* write_stream on a sink that stands at the end of the bytes it holds:
\* none, one or three
SinkSessions ==
  {[op |-> "write_stream", fault |-> "none", stream |-> held, prior |-> File(held),
    conv |-> Conversation({"metadata", "messages"}, BaseMetadata, ms, <<>>)] :
     held \in {<<>>, <<RawByte(0)>>, <<RawByte(80), RawByte(75), RawByte(3)>>},
     ms \in MessageInputs(MaxMsgs) \cup {<<>>}}

\* A header as the family's writer lays it out, with the listed fields
\* replaced: another family's magic, the next major version, the next
\* format version, a metadata length and a store offset off by a delta
HeaderInput(fam, defects, yaml_length, sqlite_offset) ==
  LET good == _write_header(fam, yaml_length, sqlite_offset)
      magic == IF "magic" \in defects
               THEN MAGIC(CHOOSE f \in Families : f # fam) ELSE MAGIC(fam)
      version == IF "version" \in defects THEN PackLE(MAJOR_VERSION + 1, 1)
                 ELSE PackLE(MAJOR_VERSION, 1)
      format_version == IF "format_version" \in defects THEN PackLE(FORMAT_VERSION + 1, 4)
                        ELSE PackLE(FORMAT_VERSION, 4)
  IN  magic \o version \o SubSeq(good, 6, 8) \o format_version \o SubSeq(good, 13, Len(good))

Container(fam, defects, len_delta, offset_delta, yaml_bytes, store) ==
  HeaderInput(fam, defects, Len(yaml_bytes) + len_delta,
              header_size(fam) + Len(yaml_bytes) + offset_delta)
    \o yaml_bytes \o store

\* The store of a one-message conversation, as the family's writer builds it
BaseStore(fam) ==
  _generate_sqlite(fam, Conversation({"metadata", "messages"}, BaseMetadata,
                                     <<MessageInput(1, "plain")>>, <<>>)).data

YamlInputs ==
  {_generate_yaml(BaseMetadata), <<>>, _generate_yaml(Pop(BaseMetadata, "version")),
   <<RawByte(255)>>}

\* Containers with header and metadata damage, and every prefix of a sound one
HeaderSessions(fam) ==
  LET sound == Container(fam, {}, 0, 0, _generate_yaml(BaseMetadata), BaseStore(fam))
      damage == {t \in (SUBSET {"magic", "version", "format_version"}) \X {-1, 0, 1, 2}
                          \X {-1, 0, 1, 2} \X YamlInputs : Len(t[4]) + t[2] >= 0}
      damaged == {Container(fam, t[1], t[2], t[3], t[4], BaseStore(fam)) : t \in damage}
      cut == {SubSeq(sound, 1, n) : n \in 0..Len(sound)}
  IN  {[op |-> "parse_stream", fault |-> "none", stream |-> c, prior |-> NoFile,
        conv |-> NoConversation] : c \in damaged \cup cut}

\* Rows of a store in the write schema: row n of the messages table
WriteRowKinds == {"plain", "late", "metadata", "bad_metadata", "attachments",
                  "bad_attachments", "parent"}

MalformedJson == <<Punct("{"), Punct("bad")>>

WriteRowInput(n, kind) ==
  LET plain == message_row(MessageInput(n, "plain"))
  IN  IF kind = "late" THEN [plain EXCEPT !.timestamp = 2 * MaxRows + 1 - n]
      ELSE IF kind = "metadata"
      THEN [plain EXCEPT !.metadata = Text(json_dumps_dict(<< <<"model", "m1">> >>))]
      ELSE IF kind = "bad_metadata" THEN [plain EXCEPT !.metadata = Text(MalformedJson)]
      ELSE IF kind = "attachments"
      THEN [plain EXCEPT !.attachments = Text(json_dumps_list(<<VStr("att_1")>>))]
      ELSE IF kind = "bad_attachments" THEN [plain EXCEPT !.attachments = Text(MalformedJson)]
      ELSE IF kind = "parent" THEN [plain EXCEPT !.parent_id = VStr("msg_1")]
      ELSE plain

\* Rows of a store in the alternate dialect: integer ids, a sequence column
AltRowKinds == {"plain", "reversed", "metadata", "bad_metadata", "parent"}

AltRowInput(n, kind) ==
  LET plain == MsgRow(VInt(n), IF n % 2 = 1 THEN "user" ELSE "assistant", "Hello", n,
                      VNone, NullText, NullText, n)
  IN  IF kind = "reversed" THEN [plain EXCEPT !.sequence = MaxRows + 1 - n]
      ELSE IF kind = "metadata"
      THEN [plain EXCEPT !.metadata = Text(json_dumps_dict(<< <<"model", "m1">> >>))]
      ELSE IF kind = "bad_metadata" THEN [plain EXCEPT !.metadata = Text(MalformedJson)]
      ELSE IF kind = "parent" THEN [plain EXCEPT !.parent_id = VInt(1)]
      ELSE plain

RECURSIVE RowInputs(_, _)
\* Row lists of length n; alt chooses the dialect
RowInputs(n, alt) ==
  IF n = 0 THEN {<<>>}
  ELSE {Append(rs, r) : rs \in RowInputs(n - 1, alt),
                        r \in IF alt THEN {AltRowInput(n, k) : k \in AltRowKinds}
                                     ELSE {WriteRowInput(n, k) : k \in WriteRowKinds}}

\* Attachment tables: of the write schema (none, one, one with a malformed
\* metadata text), and of the alternate dialect (one attachment of message
\* 1), with the checksum column or with created_at in its place
AttachmentTableInputs(alt) ==
  IF alt
  THEN LET row == AttRow(VInt(1), VInt(1), "a.txt", "text/plain", 2, <<104, 105>>,
                         VNone, "c", NullText)
           cols == AttColsAltJoin \cup AttColsAltQuery
       IN  {[cols |-> cols, rows |-> <<>>], [cols |-> cols, rows |-> <<row>>],
            [cols |-> (cols \ {"checksum"}) \cup {"created_at"}, rows |-> <<row>>]}
  ELSE LET row == attachment_row(AttachmentInput)
       IN  {[cols |-> AttColsWrite, rows |-> <<>>], [cols |-> AttColsWrite, rows |-> <<row>>],
            [cols |-> AttColsWrite, rows |-> <<[row EXCEPT !.metadata = Text(MalformedJson)]>>]}

\* Database images of one dialect
DbInputs(alt) ==
  {<<DbByte([app_id |-> SQLITE_APPLICATION_ID(f),
             msg_cols |-> IF alt THEN MsgColsAltQuery ELSE MsgColsWrite,
             att_cols |-> t.cols, msgs |-> rs, atts |-> t.rows])>> :
     f \in Families,
     rs \in UNION {RowInputs(n, alt) : n \in 0..MaxRows},
     t \in AttachmentTableInputs(alt)}

\* Metadata documents: the version and the creation time under their
\* canonical key, their legacy key, both or neither, and the participants
\* absent, as roles, as mappings, empty or a plain string
MetadataInputs ==
  LET versions == {<<>>, << <<"version", YStr("0.1")>> >>,
                   << <<"llmd_version", YStr("0.2")>> >>,
                   << <<"version", YStr("0.1")>>, <<"llmd_version", YStr("0.2")>> >>}
      times == {<<>>, << <<"created_at", YStr("2024-01-15T10:30:00Z")>> >>,
                << <<"created", YStr("2023-12-31T00:00:00Z")>> >>,
                << <<"created_at", YStr("2024-01-15T10:30:00Z")>>,
                   <<"created", YStr("2023-12-31T00:00:00Z")>> >>}
      named == PMap(<< <<"name", "Bob">> >>)
      people == {<<>>, << <<"participants", DEFAULT_PARTICIPANTS>> >>,
                 << <<"participants",
                      YList(<<PMap(<< <<"role", "user">>, <<"name", "Al">> >>), named>>)>> >>,
                 << <<"participants", YList(<<named>>)>> >>,
                 << <<"participants",
                      YList(<<PMap(<< <<"role", "assistant">> >>), named,
                              PMap(<< <<"name", "Al">>, <<"role", "user">> >>)>>)>> >>,
                 << <<"participants", YList(<<>>)>> >>,
                 << <<"participants", YStr("user")>> >>}
  IN  {v \o t \o << <<"title", YStr("Test")>> >> \o p :
         v \in versions, t \in times, p \in people}

\* Metadata blocks with NUL characters and whitespace before the text, in
\* either order and interleaved, and whitespace after it
NulPaddedInputs ==
  {encode_utf8(lead \o yaml_dump(BaseMetadata) \o trail) :
     lead \in {<<NUL>>, <<NUL, NUL>>, <<NL>>, <<NUL, NL>>, <<NL, NUL>>, <<NUL, NL, NUL>>},
     trail \in {<<>>, <<NL>>}}

\* Sound header and store, a padded metadata block
NulPaddedSessions(fam) ==
  {[op |-> "parse_stream", fault |-> "none",
    stream |-> Container(fam, {}, 0, 0, y, BaseStore(fam)),
    prior |-> NoFile, conv |-> NoConversation] : y \in NulPaddedInputs}

\* Sound header and store, every metadata document
MetadataSessions(fam) ==
  {[op |-> "parse_stream", fault |-> "none",
    stream |-> Container(fam, {}, 0, 0, _generate_yaml(m), BaseStore(fam)),
    prior |-> NoFile, conv |-> NoConversation] : m \in MetadataInputs}

\* Database images off the two dialects: the write schema with a sequence
\* column beside it, either dialect's messages table and no attachments
\* table, the write schema with a checksum column on its attachments, and
\* each of them under every application id and under none (0)
SchemaInputs ==
  LET late == [n \in 1..MaxRows |-> [WriteRowInput(n, "late") EXCEPT !.sequence = n]]
      reversed == [n \in 1..MaxRows |-> AltRowInput(n, "reversed")]
      stored == <<attachment_row(AttachmentInput)>>
  IN  {<<DbByte([app_id |-> a, msg_cols |-> s[1], att_cols |-> s[2], msgs |-> s[3],
                 atts |-> s[4]])>> :
         a \in {SQLITE_APPLICATION_ID(f) : f \in Families} \cup {0},
         s \in {<<MsgColsWrite \cup {"sequence"}, AttColsWrite, late, <<>>>>,
                <<MsgColsAltQuery, {}, reversed, <<>>>>,
                <<MsgColsWrite, {}, late, <<>>>>,
                <<MsgColsWrite, AttColsWrite, late, <<>>>>,
                <<MsgColsWrite, AttColsWrite \cup {"checksum"}, late, stored>>}}

\* Padding bytes between the metadata block and the store
PaddingInputs == {<<RawByte(0)>>, <<RawByte(0), RawByte(255)>>,
                  <<RawByte(32), RawByte(0), RawByte(10)>>}

\* Containers whose store offset points past the padding that follows the
\* metadata block
PaddedSessions(fam) ==
  {[op |-> "parse_stream", fault |-> "none",
    stream |-> HeaderInput(fam, {}, Len(y), header_size(fam) + Len(y) + Len(pad))
                 \o y \o pad \o st,
    prior |-> NoFile, conv |-> NoConversation] :
     y \in {_generate_yaml(BaseMetadata), _generate_yaml(Pop(BaseMetadata, "version"))},
     pad \in PaddingInputs,
     st \in {BaseStore(fam), <<RawByte(0)>>}
              \cup {<<DbByte([app_id |-> SQLITE_APPLICATION_ID(fam), msg_cols |-> MsgColsWrite,
                              att_cols |-> t.cols, msgs |-> rs, atts |-> t.rows])>> :
                      rs \in RowInputs(MaxRows, FALSE), t \in AttachmentTableInputs(FALSE)}}

StoreInputs ==
  {<<>>, <<RawByte(0)>>} \cup DbInputs(TRUE) \cup DbInputs(FALSE) \cup SchemaInputs

\* Sound header and metadata, every store; the staging faults on one store
StoreSessions(fam) ==
  {[op |-> "parse_stream", fault |-> "none",
    stream |-> Container(fam, {}, 0, 0, _generate_yaml(BaseMetadata), st),
    prior |-> NoFile, conv |-> NoConversation] : st \in StoreInputs}
  \cup
  {[op |-> "parse_stream", fault |-> f,
    stream |-> Container(fam, {}, 0, 0, _generate_yaml(BaseMetadata), BaseStore(fam)),
    prior |-> NoFile, conv |-> NoConversation] : f \in {"fill", "connect"}}

\* parse_file on a path that holds nothing, that cannot be opened, or that
\* holds a file: a
\* sound container, one of another family, every prefix up to the header
FileSessions(fam) ==
  LET sound == Container(fam, {}, 0, 0, _generate_yaml(BaseMetadata), BaseStore(fam))
      files == {sound, Container(fam, {"magic"}, 0, 0, _generate_yaml(BaseMetadata), BaseStore(fam))}
                 \cup {SubSeq(sound, 1, n) : n \in 0..header_size(fam)}
  IN  {[op |-> "parse_file", fault |-> "none", stream |-> <<>>, prior |-> NoFile,
        conv |-> NoConversation]}
        \cup {[op |-> "parse_file", fault |-> f, stream |-> <<>>, prior |-> NoFile,
               conv |-> NoConversation] : f \in PathFaults}
        \cup {[op |-> "parse_file", fault |-> "none", stream |-> <<>>, prior |-> File(c),
               conv |-> NoConversation] : c \in files}

Sessions(fam) ==
  FileSessions(fam) \cup WriteSessions \cup HeaderSessions(fam) \cup MetadataSessions(fam) \cup StoreSessions(fam)
    \cup PaddedSessions(fam) \cup NulPaddedSessions(fam)

Init ==
  /\ family \in Families
  /\ \E session \in Sessions(family) :
       /\ op = session.op
       /\ fault = session.fault
       /\ stream = session.stream
       /\ prior = session.prior
       /\ conv = session.conv
  /\ pc = IF op = "write_file" THEN "w_open"
          ELSE IF op = "write_stream" THEN "w_validate"
          ELSE IF op = "parse_file" THEN "p_open" ELSE "p_header"
  /\ pos = 0
  /\ header = NoHeader
  /\ yaml_data = <<>>
  /\ metadata = <<>>
  /\ sqlite_data = <<>>
  /\ parsed = NoConversation
  /\ tmpfiles = {}
  /\ tmp_path = 0
  /\ reached = {}
  /\ result = Running
  /\ calls = <<>>
  /\ tmpdir = <<>>

Next ==
  \/ P_Open \/ P_ReadHeader \/ P_ReadYaml \/ P_ParseMetadata \/ P_ReadStore
  \/ P_Stage \/ P_Load \/ P_Return
  \/ W_Open \/ W_Validate \/ W_GenerateYaml \/ W_Stage \/ W_GenerateSqlite
  \/ W_WriteHeader \/ W_WriteYaml \/ W_WriteSqlite
  \/ Reparse \/ Rewrite

Spec == Init /\ [][Next]_vars

\* write_stream on a sink that may hold bytes already, and the parse of the
\* sink from the position the write began at
InitSink ==
  /\ family \in Families
  /\ \E session \in SinkSessions :
       /\ op = session.op
       /\ fault = session.fault
       /\ stream = session.stream
       /\ prior = session.prior
       /\ conv = session.conv
  /\ pc = "w_validate"
  /\ pos = Len(stream)
  /\ header = NoHeader
  /\ yaml_data = <<>>
  /\ metadata = <<>>
  /\ sqlite_data = <<>>
  /\ parsed = NoConversation
  /\ tmpfiles = {}
  /\ tmp_path = 0
  /\ reached = {}
  /\ result = Running
  /\ calls = <<>>
  /\ tmpdir = <<>>

NextSink ==
  \/ W_Validate \/ W_GenerateYaml \/ W_Stage \/ W_GenerateSqlite
  \/ W_WriteHeader \/ W_WriteYaml \/ W_WriteSqlite
  \/ Reparse
  \/ P_ReadHeader \/ P_ReadYaml \/ P_ParseMetadata \/ P_ReadStore
  \/ P_Stage \/ P_Load \/ P_Return

SpecSink == InitSink /\ [][NextSink]_vars

----------------------------------------------------------------------------
(* Two calls at once.  The calls share nothing but the directory of the    *)
(* staging files.  A step is one change of a call to that directory: the   *)
(* creation of its file, one write of bytes, one committed statement of    *)
(* its connection, the removal.  What a call does on its own locals is     *)
(* taken with the step next to it; the queries of a parse, which read the  *)
(* file and change nothing, are taken with the connect before them.  A     *)
(* call is a record of its locals.                                         *)

\* What a call hands back: how it ended, the conversation a parse returned,
\* the bytes a write put into its sink
Outcome(res, conversation, bytes) ==
  [result |-> res, conversation |-> conversation, bytes |-> bytes]

\* parse_stream lines 66-70 succeed: the call gets to _parse_sqlite_data
parse_prefix_ok(fam, s) ==
  LET h == _read_header(fam, s, 0)
      y == _read_yaml_section(s, h.pos, h.yaml_length)
  IN  /\ h.err = "none" /\ y.err = "none" /\ _parse_metadata(fam, y.text).err = "none"

\* lines 73-74: the bytes handed to _parse_sqlite_data
store_bytes_of(fam, s) == ReadAll(s, store_start(fam, _read_header(fam, s, 0)))

\* parse_stream, given what the connection to the staging file found there
parse_staged(fam, s, staged) ==
  LET h == _read_header(fam, s, 0)
      y == _read_yaml_section(s, h.pos, h.yaml_length)
      m == _parse_metadata(fam, y.text)
      l == load_store(fam, staged, FALSE)
      Fails(e, why) == Outcome(parse_stream_raises(e, why), NoConversation, <<>>)
  IN  IF h.err # "none" THEN Fails(h.err, "")
      ELSE IF y.err # "none" THEN Fails(y.err, y.why)
      ELSE IF m.err # "none" THEN Fails(m.err, m.why)
      ELSE IF l.err # "none" THEN Fails(l.err, l.why)
      ELSE Outcome(Returned,
                   Conversation({"metadata", "messages"}
                                  \cup (IF l.attachments # <<>> THEN {"attachments"} ELSE {}),
                                m.data, l.messages, l.attachments),
                   <<>>)

\* write_stream, given what _generate_sqlite read back from the staging file
write_staged(fam, conversation, staged) ==
  LET v == _validate_conversation(conversation)
      g == _generate_sqlite(fam, conversation)
      text == yaml_dump(conversation.metadata)
  IN  IF v.err # "none"
      THEN Outcome(write_stream_raises(v.err, v.what, v.index), NoConversation, <<>>)
      ELSE IF g.err # "none"
      THEN Outcome(write_stream_raises(g.err, g.why, -1), NoConversation, <<>>)
      ELSE Outcome(Returned, NoConversation,
                   header_bytes(fam, text) \o encode_utf8(text) \o staged)

\* The call run alone
alone(c) ==
  IF c.op = "parse_stream"
  THEN parse_staged(c.fam, c.stream,
                    IF parse_prefix_ok(c.fam, c.stream)
                    THEN store_bytes_of(c.fam, c.stream) ELSE <<>>)
  ELSE write_staged(c.fam, c.conv, _generate_sqlite(c.fam, c.conv).data)

\* os.unlink / open / the close of a NamedTemporaryFile on a path that is gone
missing_file(c) ==
  Outcome(IF c.op = "parse_stream" THEN parse_stream_raises("FileNotFoundError", "")
          ELSE write_stream_raises("FileNotFoundError", "", -1),
          NoConversation, <<>>)

Call(o, fam, s, conversation) ==
  [op |-> o, fam |-> fam, stream |-> s, conv |-> conversation, pc |-> "stage",
   tmp_path |-> 0, staged |-> <<>>, overlapped |-> FALSE,
   out |-> Outcome(Running, NoConversation, <<>>)]

\* Containers of a family: sound with one message, sound with two messages and an
\* attachment, without the store section, with another family's magic
ContainersOf(fam) ==
          {Container(fam, {}, 0, 0, _generate_yaml(BaseMetadata), BaseStore(fam)),
            Container(fam, {}, 0, 0, _generate_yaml(BaseMetadata),
                      _generate_sqlite(fam, Conversation({"metadata", "messages", "attachments"},
                                         BaseMetadata,
                                         <<MessageInput(1, "full"), MessageInput(2, "plain")>>,
                                         <<AttachmentInput>>)).data),
            Container(fam, {}, 0, 0, _generate_yaml(BaseMetadata), <<>>),
            Container(fam, {"magic"}, 0, 0, _generate_yaml(BaseMetadata), BaseStore(fam))}

ParseCalls ==
  {Call("parse_stream", t[1], t[2], NoConversation) :
     t \in UNION {{<<fam, s>> : s \in ContainersOf(fam)} : fam \in Families}}

\* Conversations: no message, one message, two messages and an attachment,
\* two messages of one id, no version
WriteCalls ==
  {Call("write_stream", fam, <<>>, c) :
     fam \in Families,
     c \in {Conversation({"metadata", "messages"}, BaseMetadata, <<>>, <<>>),
            Conversation({"metadata", "messages"}, BaseMetadata, <<MessageInput(1, "plain")>>, <<>>),
            Conversation({"metadata", "messages", "attachments"}, BaseMetadata,
                         <<MessageInput(1, "full"), MessageInput(2, "late")>>, <<AttachmentInput>>),
            Conversation({"metadata", "messages"}, BaseMetadata,
                         <<MessageInput(1, "plain"), MessageInput(2, "dup")>>, <<>>),
            Conversation({"metadata", "messages"}, Pop(BaseMetadata, "version"),
                         <<MessageInput(1, "plain")>>, <<>>)}}

\* Two calls on different inputs; the machine of the single call stands still
InitPair ==
  /\ \E first \in ParseCalls \cup WriteCalls, second \in ParseCalls \cup WriteCalls :
       /\ first # second
       /\ calls = <<first, second>>
  /\ tmpdir = <<>>
  /\ tmpfiles = {}
  /\ family = "LLMC"
  /\ op = "parse_stream"
  /\ fault = "none"
  /\ stream = <<>>
  /\ prior = NoFile
  /\ conv = NoConversation
  /\ pc = "done"
  /\ pos = 0
  /\ header = NoHeader
  /\ yaml_data = <<>>
  /\ metadata = <<>>
  /\ sqlite_data = <<>>
  /\ parsed = NoConversation
  /\ tmp_path = 0
  /\ reached = {}
  /\ result = Running

\* The directory with the file `name` created by call i, empty or with
\* bytes; `journal` is the rollback journal of a connection beside the file
with_file(name, i, bytes) ==
  [n \in (DOMAIN tmpdir) \cup {name} |->
     IF n = name THEN [owner |-> i, data |-> bytes, journal |-> FALSE] ELSE tmpdir[n]]

without_file(name) == [n \in (DOMAIN tmpdir) \ {name} |-> tmpdir[n]]

\* The directory after a write into the file `name`, which is there
rewritten(name, bytes, journal) ==
  [tmpdir EXCEPT ![name] = [owner |-> @.owner, data |-> bytes, journal |-> journal]]

\* The staging file of a write between the statements of its connection:
\* the application id is set, the tables `mc` and `ac` are there, no row is
store_under_construction(fam, mc, ac) ==
  <<DbByte([app_id |-> SQLITE_APPLICATION_ID(fam), msg_cols |-> mc, att_cols |-> ac,
            msgs |-> <<>>, atts |-> <<>>])>>

PairFrame ==
  UNCHANGED <<family, op, pc, fault, stream, pos, prior, conv, header, yaml_data,
              metadata, sqlite_data, parsed, tmp_path, reached, result>>

\* parse: lines 66-74 and NamedTemporaryFile(delete=False) of
\* _parse_sqlite_data (194); write: lines 63-67 and NamedTemporaryFile() of
\* _generate_sqlite (159).  The file is created empty.  A call that fails
\* before it stages ends here.
Pair_Stage ==
  \E i \in DOMAIN calls :
    LET c == calls[i]
        early == IF c.op = "parse_stream" THEN ~parse_prefix_ok(c.fam, c.stream)
                 ELSE _validate_conversation(c.conv).err # "none"
        name == fresh_tmp_name
    IN  /\ c.pc = "stage"
        /\ IF early
           THEN /\ calls' = [calls EXCEPT ![i].pc = "done", ![i].out = alone(c)]
                /\ tmpdir' = tmpdir
           ELSE /\ calls' = [calls EXCEPT
                              ![i].pc = IF c.op = "parse_stream" THEN "fill" ELSE "connect",
                              ![i].tmp_path = name,
                              ![i].overlapped = tmpdir # <<>>]
                /\ tmpdir' = with_file(name, i, <<>>)
        /\ tmpfiles' = DOMAIN tmpdir'
        /\ PairFrame

\* _parse_sqlite_data lines 195-196: tmp_file.write(sqlite_data) and the
\* close at the end of the with block.  The bytes go to the open file: a
\* path that is gone stays gone.
Pair_Fill ==
  \E i \in DOMAIN calls :
    LET c == calls[i]
    IN  /\ c.pc = "fill"
        /\ calls' = [calls EXCEPT ![i].pc = "load"]
        /\ tmpdir' = IF c.tmp_path \in DOMAIN tmpdir
                     THEN rewritten(c.tmp_path, store_bytes_of(c.fam, c.stream), FALSE)
                     ELSE tmpdir
        /\ tmpfiles' = DOMAIN tmpdir'
        /\ PairFrame

\* _parse_sqlite_data lines 200-214: sqlite3.connect and the queries read
\* the staging file; on a path that is gone connect creates the file again,
\* empty, and the queries find an empty database
Pair_Load ==
  \E i \in DOMAIN calls :
    LET c == calls[i]
        there == c.tmp_path \in DOMAIN tmpdir
    IN  /\ c.pc = "load"
        /\ calls' = [calls EXCEPT
                       ![i].pc = "unlink",
                       ![i].staged = IF there THEN tmpdir[c.tmp_path].data ELSE <<>>]
        /\ tmpdir' = IF there THEN tmpdir ELSE with_file(c.tmp_path, i, <<>>)
        /\ tmpfiles' = DOMAIN tmpdir'
        /\ PairFrame

\* _generate_sqlite line 160: sqlite3.connect(tmp_file.name) opens the
\* staging file; on a path that is gone it creates the file again
Pair_Connect ==
  \E i \in DOMAIN calls :
    LET c == calls[i]
    IN  /\ c.pc = "connect"
        /\ calls' = [calls EXCEPT ![i].pc = "pragma"]
        /\ tmpdir' = IF c.tmp_path \in DOMAIN tmpdir THEN tmpdir
                     ELSE with_file(c.tmp_path, i, <<>>)
        /\ tmpfiles' = DOMAIN tmpdir'
        /\ PairFrame

\* _generate_sqlite lines 163-166 and _create_schema: PRAGMA application_id,
\* CREATE TABLE messages, CREATE TABLE attachments (and the indexes with
\* it), one statement a step; each is committed to the file as it runs.  On
\* a path that is gone the statement raises sqlite3.OperationalError
\* (attempt to write a readonly database) and the file stays gone.
Pair_Schema ==
  \E i \in DOMAIN calls :
    LET c == calls[i]
        image == IF c.pc = "pragma" THEN store_under_construction(c.fam, {}, {})
                 ELSE IF c.pc = "create_messages"
                 THEN store_under_construction(c.fam, MsgColsWrite, {})
                 ELSE store_under_construction(c.fam, MsgColsWrite, AttColsWrite)
        next == IF c.pc = "pragma" THEN "create_messages"
                ELSE IF c.pc = "create_messages" THEN "create_attachments" ELSE "insert"
    IN  /\ c.pc \in {"pragma", "create_messages", "create_attachments"}
        /\ IF c.tmp_path \in DOMAIN tmpdir
           THEN /\ calls' = [calls EXCEPT ![i].pc = next]
                /\ tmpdir' = rewritten(c.tmp_path, image, FALSE)
           ELSE /\ calls' = [calls EXCEPT ![i].pc = "rollback"]
                /\ tmpdir' = tmpdir
        /\ tmpfiles' = DOMAIN tmpdir'
        /\ PairFrame

\* The conversation has a row to insert: a message or an attachment
has_rows(conversation) ==
  \/ conversation.messages # <<>>
  \/ ("attachments" \in conversation.keys /\ conversation.attachments # <<>>)

\* _generate_sqlite lines 169-172: the INSERT statements, one for each
\* message and each attachment.  The first opens a transaction: the rows
\* stay in the connection, a rollback journal appears beside the file.  An
\* id the table holds raises sqlite3.IntegrityError, a path that is gone
\* sqlite3.OperationalError.  Without a row no statement runs: nothing is
\* raised and nothing touches the file or its path.
Pair_Insert ==
  \E i \in DOMAIN calls :
    LET c == calls[i]
        g == _generate_sqlite(c.fam, c.conv)
    IN  /\ c.pc = "insert"
        /\ IF ~has_rows(c.conv)
           THEN /\ calls' = [calls EXCEPT ![i].pc = "commit"]
                /\ tmpdir' = tmpdir
           ELSE IF c.tmp_path \in DOMAIN tmpdir
           THEN /\ calls' = [calls EXCEPT
                               ![i].pc = IF g.err = "none" THEN "commit" ELSE "rollback"]
                /\ tmpdir' = rewritten(c.tmp_path, tmpdir[c.tmp_path].data, TRUE)
           ELSE /\ calls' = [calls EXCEPT ![i].pc = "rollback"]
                /\ tmpdir' = tmpdir
        /\ tmpfiles' = DOMAIN tmpdir'
        /\ PairFrame

\* _generate_sqlite lines 175-178: conn.commit() writes the rows to the
\* file and removes the journal (without a transaction it does nothing);
\* conn.close()
Pair_Commit ==
  \E i \in DOMAIN calls :
    LET c == calls[i]
    IN  /\ c.pc = "commit"
        /\ calls' = [calls EXCEPT ![i].pc = "read"]
        /\ tmpdir' = IF c.tmp_path \in DOMAIN tmpdir
                     THEN rewritten(c.tmp_path, _generate_sqlite(c.fam, c.conv).data, FALSE)
                     ELSE tmpdir
        /\ tmpfiles' = DOMAIN tmpdir'
        /\ PairFrame

\* _generate_sqlite lines 183-189: the sqlite3.Error becomes the format
\* error, and conn.close() in the finally clause rolls the transaction back:
\* the journal goes, the file keeps what was committed
Pair_Rollback ==
  \E i \in DOMAIN calls :
    LET c == calls[i]
    IN  /\ c.pc = "rollback"
        /\ calls' = [calls EXCEPT
                       ![i].pc = "unlink",
                       ![i].out = Outcome(write_stream_raises("FormatError",
                                                              "SQLite generation error", -1),
                                          NoConversation, <<>>)]
        /\ tmpdir' = IF c.tmp_path \in DOMAIN tmpdir
                     THEN rewritten(c.tmp_path, tmpdir[c.tmp_path].data, FALSE)
                     ELSE tmpdir
        /\ tmpfiles' = DOMAIN tmpdir'
        /\ PairFrame

\* _generate_sqlite lines 179-181: open(tmp_file.name, "rb") and read
Pair_ReadBack ==
  \E i \in DOMAIN calls :
    LET c == calls[i]
    IN  /\ c.pc = "read"
        /\ calls' = IF c.tmp_path \in DOMAIN tmpdir
                    THEN [calls EXCEPT ![i].pc = "unlink",
                                       ![i].staged = tmpdir[c.tmp_path].data]
                    ELSE [calls EXCEPT ![i].pc = "unlink", ![i].out = missing_file(c)]
        /\ UNCHANGED <<tmpdir, tmpfiles>>
        /\ PairFrame

\* parse: os.unlink(tmp_path) in the finally clause (line 220) and lines
\* 76-88; write: the exit of the with block removes the file, and lines
\* 72-83 write the sink.  On a path that is gone the removal raises
\* FileNotFoundError in the place of whatever the call was raising.
Pair_Unlink ==
  \E i \in DOMAIN calls :
    LET c == calls[i]
        finished == IF c.op = "parse_stream" THEN parse_staged(c.fam, c.stream, c.staged)
                    ELSE write_staged(c.fam, c.conv, c.staged)
    IN  /\ c.pc = "unlink"
        /\ calls' = [calls EXCEPT
                       ![i].pc = "done",
                       ![i].out = IF c.tmp_path \notin DOMAIN tmpdir THEN missing_file(c)
                                  ELSE IF c.out.result # Running THEN c.out
                                  ELSE finished]
        /\ tmpdir' = without_file(c.tmp_path)
        /\ tmpfiles' = DOMAIN tmpdir'
        /\ PairFrame

NextPair ==
  \/ Pair_Stage \/ Pair_Fill \/ Pair_Load
  \/ Pair_Connect \/ Pair_Schema \/ Pair_Insert \/ Pair_Commit \/ Pair_Rollback
  \/ Pair_ReadBack \/ Pair_Unlink

SpecPair == InitPair /\ [][NextPair]_vars

----------------------------------------------------------------------------
(* _write_header, one stream.write at a time, for metadata blocks of any    *)
(* length.  A length is a natural number of any size: its base-256 digits,  *)
(* least significant first, without leading zeros.  A metadata block is     *)
(* kept as one unit of the sink that stands for that many bytes.            *)

WideOf(n) == IF n = 0 THEN <<>> ELSE PackLE(n, 4)
RECURSIVE Canonical(_)
Canonical(digits) ==
  IF digits # <<>> /\ digits[Len(digits)].v = 0
  THEN Canonical(SubSeq(digits, 1, Len(digits) - 1)) ELSE digits

RECURSIVE WideAddCarry(_, _, _)
WideAddCarry(a, b, carry) ==
  IF a = <<>> /\ b = <<>> THEN (IF carry = 0 THEN <<>> ELSE <<RawByte(carry)>>)
  ELSE LET x == IF a = <<>> THEN 0 ELSE a[1].v
           y == IF b = <<>> THEN 0 ELSE b[1].v
           s == x + y + carry
       IN  <<RawByte(s % 256)>>
             \o WideAddCarry(IF a = <<>> THEN a ELSE Tail(a),
                             IF b = <<>> THEN b ELSE Tail(b), s \div 256)

\* a + b
WideAdd(a, b) == Canonical(WideAddCarry(a, b, 0))

\* struct.pack("<I" / "<Q", n): the `width` bytes of n, or struct.error when
\* n needs more
struct_pack(n, width) ==
  IF Len(n) > width THEN [err |-> STRUCT_ERROR, bytes |-> <<>>]
  ELSE [err |-> "none", bytes |-> n \o [i \in 1..(width - Len(n)) |-> RawByte(0)]]

\* The metadata block of n bytes as one unit of the sink
TextBlock(n) == [k |-> "text", v |-> n]

\* len(yaml_bytes)
RECURSIVE byte_length(_)
byte_length(bytes) ==
  IF bytes = <<>> THEN <<>>
  ELSE WideAdd(IF bytes[1].k = "text" THEN bytes[1].v ELSE WideOf(1),
               byte_length(Tail(bytes)))

\* Lengths around 2^32: 0, 96, 2^32 - 32, 2^32 - 1, 2^32, 2^32 + 5, 2^40 - 1
WideLengths ==
  {<<>>, <<RawByte(96)>>,
   <<RawByte(224), RawByte(255), RawByte(255), RawByte(255)>>,
   <<RawByte(255), RawByte(255), RawByte(255), RawByte(255)>>,
   <<RawByte(0), RawByte(0), RawByte(0), RawByte(0), RawByte(1)>>,
   <<RawByte(5), RawByte(0), RawByte(0), RawByte(0), RawByte(1)>>,
   <<RawByte(255), RawByte(255), RawByte(255), RawByte(255), RawByte(255)>>}

\* write_stream / write_file after lines 63-70: write_file has opened its
\* path (line 45), the conversation is valid, its metadata is encoded and
\* its store generated
InitWide ==
  /\ family \in Families
  /\ op \in WriteOps
  /\ fault = "none"
  /\ stream = <<>>
  /\ prior = IF op = "write_file" THEN File(<<>>) ELSE NoFile
  /\ \E ms \in {<<>>, <<MessageInput(1, "plain")>>} :
       /\ conv = Conversation({"metadata", "messages"}, BaseMetadata, ms, <<>>)
       /\ sqlite_data = _generate_sqlite(family, conv).data
  /\ \E n \in WideLengths : yaml_data = <<TextBlock(n)>>
  /\ pc = "wh_magic"
  /\ pos = 0
  /\ header = NoHeader
  /\ metadata = <<>>
  /\ parsed = NoConversation
  /\ tmpfiles = {}
  /\ tmp_path = 0
  /\ reached = {"validate", "yaml", "stage", "sqlite"}
                 \cup (IF op = "write_file" THEN {"open"} ELSE {})
  /\ result = Running
  /\ calls = <<>>
  /\ tmpdir = <<>>

\* One stream.write of _write_header
HeaderWrite(next, bytes) ==
  /\ stream' = stream \o bytes
  /\ pos' = Len(stream')
  /\ pc' = next
  /\ UNCHANGED <<calls, tmpdir, family, op, fault, prior, conv, header, yaml_data, metadata,
                 sqlite_data, parsed, tmpfiles, tmp_path, reached, result>>

\* stream.write(struct.pack(...)): the pack raises before anything is
\* written, and write_stream's handler wraps the error
HeaderPack(next, packed) ==
  /\ IF packed.err = "none"
     THEN /\ stream' = stream \o packed.bytes
          /\ pc' = next /\ result' = result
     ELSE /\ stream' = stream
          /\ pc' = "done" /\ result' = write_stream_raises(packed.err, "", -1)
  /\ pos' = Len(stream')
  /\ UNCHANGED <<calls, tmpdir, family, op, fault, prior, conv, header, yaml_data, metadata,
                 sqlite_data, parsed, tmpfiles, tmp_path, reached>>

\* lines 74 and 77: the arguments of _write_header
yaml_length_arg == byte_length(yaml_data)
sqlite_offset_arg == WideAdd(WideOf(header_size(family)), byte_length(yaml_data))

\* line 125
WH_Magic ==
  /\ op \in WriteOps /\ pc = "wh_magic"
  /\ HeaderWrite("wh_version", MAGIC(family))

\* line 126
WH_Version ==
  /\ op \in WriteOps /\ pc = "wh_version"
  /\ HeaderWrite("wh_reserved", PackLE(MAJOR_VERSION, 1))

\* line 127
WH_Reserved ==
  /\ op \in WriteOps /\ pc = "wh_reserved"
  /\ HeaderWrite("wh_format", <<RawByte(0), RawByte(0), RawByte(0)>>)

\* line 130
WH_FormatVersion ==
  /\ op \in WriteOps /\ pc = "wh_format"
  /\ HeaderWrite("wh_length", PackLE(FORMAT_VERSION, 4))

\* line 133
WH_YamlLength ==
  /\ op \in WriteOps /\ pc = "wh_length"
  /\ HeaderPack("wh_offset", struct_pack(yaml_length_arg, 4))

\* line 136; the LLMD header ends here
WH_SqliteOffset ==
  /\ op \in WriteOps /\ pc = "wh_offset"
  /\ HeaderPack(IF family = "LLMC" THEN "wh_flags" ELSE "wh_yaml",
                struct_pack(sqlite_offset_arg, 8))

\* line 139
WH_Flags ==
  /\ op \in WriteOps /\ pc = "wh_flags"
  /\ HeaderWrite("wh_tail", <<RawByte(0)>>)

\* line 142
WH_Tail ==
  /\ op \in WriteOps /\ pc = "wh_tail"
  /\ HeaderWrite("wh_yaml", [i \in 1..7 |-> RawByte(0)])

\* line 80: stream.write(yaml_bytes)
WH_WriteYaml ==
  /\ op \in WriteOps /\ pc = "wh_yaml"
  /\ HeaderWrite("w_write_sqlite", yaml_data)

NextWide ==
  \/ WH_Magic \/ WH_Version \/ WH_Reserved \/ WH_FormatVersion
  \/ WH_YamlLength \/ WH_SqliteOffset \/ WH_Flags \/ WH_Tail
  \/ WH_WriteYaml \/ W_WriteSqlite

SpecWide == InitWide /\ [][NextWide]_vars

----------------------------------------------------------------------------
(* Properties                                                              *)

WriteDone == op \in WriteOps /\ pc = "done"

\* The write has its sink: the stream handed to write_stream, or the file
\* write_file opened
sink_given == op = "write_stream" \/ (op = "write_file" /\ "open" \in reached)
ParseDone == op \in ParseOps /\ pc = "done"

\* The attachments a conversation carries
attachments_of(conversation) ==
  IF "attachments" \in conversation.keys THEN conversation.attachments ELSE <<>>

\* C1: every conversation that passes validation and is written parses back
\* to identical metadata, the same messages in the same order with the same
\* fields, and the same attachments.
C1_RoundTripIdentity ==
  ("reparse" \in reached /\ pc = "done") =>
    /\ result.kind = "ok"
    /\ DictEq(parsed.metadata, conv.metadata)
    /\ parsed.messages = conv.messages
    /\ Range(attachments_of(parsed)) = Range(attachments_of(conv))

\* C2: a write that has its sink (the stream of write_stream, the opened
\* file of write_file), that validation lets through and whose ids are unique
\* returns; the sink then holds the header, the metadata bytes and the store
\* bytes, in that order, each part appended after the one before; the
\* header decodes to a metadata length equal to the number of metadata bytes
\* and a store offset equal to the header size (32 LLMC, 24 LLMD) plus it.
C2_WriteLayout ==
  LET yaml_bytes == _generate_yaml(conv.metadata)
      store == _generate_sqlite(family, conv)
      size == IF family = "LLMC" THEN LLMC_HEADER_SIZE ELSE LLMD_HEADER_SIZE
      decoded == _read_header(family, stream, 0)
  IN  op \in WriteOps =>
        /\ (/\ pc = "done" /\ sink_given
            /\ _validate_conversation(conv).err = "none" /\ store.err = "none")
             => result.kind = "ok"
        /\ pc = "w_write_yaml" => Len(stream) = size
        /\ pc = "w_write_sqlite" => Len(stream) = size + Len(yaml_bytes)
        /\ (pc = "done" /\ result.kind = "ok") =>
             /\ Len(stream) = size + Len(yaml_bytes) + Len(store.data)
             /\ decoded.err = "none"
             /\ decoded.pos = size
             /\ decoded.yaml_length = Len(yaml_bytes)
             /\ decoded.sqlite_offset = size + Len(yaml_bytes)
             /\ SubSeq(stream, size + 1, size + Len(yaml_bytes)) = yaml_bytes
             /\ SubSeq(stream, decoded.sqlite_offset + 1, Len(stream)) = store.data

C2_Witness ==
  /\ WriteDone /\ result.kind = "ok" /\ family = "LLMD"
  /\ Len(conv.messages) >= 2
  /\ _read_header(family, stream, 0).sqlite_offset
       = LLMD_HEADER_SIZE + Len(_generate_yaml(conv.metadata))
  /\ Len(stream) > _read_header(family, stream, 0).sqlite_offset

\* C3: after a write that fails the sink has received no bytes, and a file
\* that was at the destination of write_file before the call is as it was.
C3_FailedWriteLeavesDestination ==
  (WriteDone /\ result.kind # "ok") =>
    /\ stream = <<>>
    /\ (op = "write_file" /\ prior.exists) => destination = prior

\* The messages of conv that lack content, by position
lacks_content == {i \in DOMAIN conv.messages : "content" \notin conv.messages[i].keys}

\* C4: a conversation without metadata.version fails the write with a
\* validation error naming the field, and so does a conversation with a
\* message without content; in both cases the sink never receives a byte.
\* When the missing content is the first failure validation meets, the
\* error names the 0-based index of that message.  The conversation has
\* both sections, and the write has its sink: a write_file whose path cannot
\* be opened fails on the path before it validates.
C4_ValidationBeforeOutput ==
  (/\ op \in WriteOps /\ {"metadata", "messages"} \subseteq conv.keys
   /\ (~HasKey(conv.metadata, "version") \/ lacks_content # {})) =>
    /\ stream = <<>>
    /\ (pc = "done" /\ sink_given) =>
         /\ result.kind = "ValidationError"
         /\ ~HasKey(conv.metadata, "version") => result.why = "version" /\ result.index = -1
         /\ (/\ \A i \in DOMAIN required_fields : HasKey(conv.metadata, required_fields[i])
             /\ \A i \in DOMAIN conv.messages :
                  /\ required_msg_fields[1] \in conv.messages[i].keys
                  /\ required_msg_fields[2] \in conv.messages[i].keys
                  /\ (\A j \in lacks_content : i < j)
                       => required_msg_fields[4] \in conv.messages[i].keys) =>
              /\ result.why = "content"
              /\ result.index + 1 \in lacks_content
              /\ \A i \in lacks_content : result.index + 1 <= i

C4_Witness ==
  /\ WriteDone /\ result.kind = "ValidationError"
  /\ lacks_content = {2}
  /\ result.index = 1 /\ result.why = "content"
  /\ stream = <<>>

\* C5: when a parse or write call has returned or raised, no staging file
\* it created is left on disk.
C5_StagingRemoved == pc = "done" => tmpfiles = {}

\* What the stream holds where the header's first fields are
\* The parse has its stream: handed to parse_stream, or opened by parse_file
stream_given == op = "parse_stream" \/ (op = "parse_file" /\ "open" \in reached)

magic_corrupted == ReadN(stream, 0, 4) # MAGIC(family)
version_unsupported == Len(stream) >= 5 /\ stream[5] # RawByte(MAJOR_VERSION)
revision_unsupported == Len(stream) >= 12 /\ UnpackLE(SubSeq(stream, 9, 12)) # 1

\* C6: a parse of a stream with a corrupted magic, an unsupported major
\* version or a format revision other than 1 ends in a format error, reads
\* nothing beyond the header, and never reaches the metadata section, the
\* YAML step or the store.
C6_HeaderRejection ==
  (stream_given /\ (magic_corrupted \/ version_unsupported \/ revision_unsupported)) =>
    /\ pc \in {"p_header", "done"}
    /\ reached \subseteq {"open", "header"}
    /\ pos <= 12
    /\ yaml_data = <<>> /\ metadata = <<>> /\ sqlite_data = <<>> /\ tmpfiles = {}
    /\ pc = "done" => result.kind = "FormatError" /\ result.cause = ""

C6_Witness ==
  /\ ParseDone /\ result.kind = "FormatError"
  /\ ~magic_corrupted /\ ~version_unsupported /\ revision_unsupported
  /\ Len(stream) > header_size(family)
  /\ pos = 12

\* C7: for an input shorter than the header (32 bytes LLMC, 24 LLMD), header
\* decoding fails, and the failure is a format error.
C7_ShortHeaderIsFormatError ==
  (stream_given /\ Len(stream) < header_size(family) /\ pc # "p_header") =>
    /\ pc = "done"
    /\ reached \ {"open"} = {"header"}
    /\ result.kind = "FormatError"

\* The decoded header asks for more metadata bytes than follow it
metadata_overruns ==
  op \in ParseOps /\ header # NoHeader /\ header.yaml_length > Len(stream) - header.pos

\* C8: when the decoded metadata length exceeds the bytes that remain after
\* the header, the parse ends in the format error of an incomplete metadata
\* section, and the store section is never read.
C8_IncompleteMetadata ==
  metadata_overruns =>
    /\ pc \in {"p_yaml", "done"}
    /\ reached \subseteq {"open", "header", "yaml"}
    /\ sqlite_data = <<>> /\ tmpfiles = {}
    /\ pc = "done" => /\ result.kind = "FormatError"
                      /\ result.why = "Incomplete YAML section"

C8_Witness ==
  /\ metadata_overruns /\ pc = "done"
  /\ Len(stream) > header.pos
  /\ result.kind = "FormatError" /\ result.why = "Incomplete YAML section"
  /\ "store" \notin reached

\* A parse, without staging faults, of a container whose store section is
\* a database image stamped with the family's application id
parses_database ==
  /\ op \in ParseOps /\ fault = "none"
  /\ Len(sqlite_data) = 1 /\ sqlite_data[1].k = "db"
  /\ application_id_ok(family, sqlite_data[1].v)

ids_of(entities) == {entities[i].id : i \in DOMAIN entities}

\* C9: the parse of a store in the alternate dialect (the columns of both
\* alternate-dialect queries, at least one message row) returns, with one
\* message per row whose id is the message prefix plus the row's key, every
\* parent_id the id of a returned message, and every attachment id listed on
\* a message the id of a returned attachment.
C9_AlternateDialectIds ==
  (parses_database /\ pc = "done"
     /\ alt_messages_query_ok(sqlite_data[1].v) /\ alt_attachments_query_ok(sqlite_data[1].v)
     /\ sqlite_data[1].v.msgs # <<>>) =>
    /\ result.kind = "ok"
    /\ Len(parsed.messages) = Len(sqlite_data[1].v.msgs)
    /\ ids_of(parsed.messages) = {msg_id_of(r.id) : r \in Range(sqlite_data[1].v.msgs)}
    /\ \A i \in DOMAIN parsed.messages :
         /\ "parent_id" \in parsed.messages[i].keys
              => parsed.messages[i].parent_id \in ids_of(parsed.messages)
         /\ Range(parsed.messages[i].attachments) \subseteq ids_of(parsed.attachments)

\* json.loads would raise on the row's metadata text
malformed_metadata(r) == text_truthy(r.metadata) /\ json_loads(r.metadata.text).err # "none"

\* A store either parser has a query for, sound but for message metadata
\* texts: the write schema, or the alternate dialect for the family that
\* probes it
sound_but_for_message_metadata ==
  /\ parses_database
  /\ LET db == sqlite_data[1].v
     IN  /\ \/ write_messages_query_ok(db) /\ ~alt_messages_query_ok(db)
            \/ alt_messages_query_ok(db) /\ alt_attachments_query_ok(db) /\ family = "LLMC"
         /\ \A i \in DOMAIN db.msgs :
              text_truthy(db.msgs[i].attachments)
                => json_loads(db.msgs[i].attachments.text).err = "none"
         /\ \A i \in DOMAIN db.atts : ~malformed_metadata(db.atts[i])

\* C10: the parse of a store with a message row whose metadata text is
\* malformed returns, in either dialect: every row is returned as a message,
\* and the message of the malformed row has no metadata field and the row's
\* role, content and timestamp.
C10_LenientMessageMetadata ==
  (sound_but_for_message_metadata /\ pc = "done"
     /\ \E r \in Range(sqlite_data[1].v.msgs) : malformed_metadata(r)) =>
    /\ result.kind = "ok"
    /\ Len(parsed.messages) = Len(sqlite_data[1].v.msgs)
    /\ \A r \in Range(sqlite_data[1].v.msgs) :
         malformed_metadata(r) =>
           \E i \in DOMAIN parsed.messages :
             /\ parsed.messages[i].id
                  = (IF alt_messages_query_ok(sqlite_data[1].v) THEN msg_id_of(r.id) ELSE r.id)
             /\ "metadata" \notin parsed.messages[i].keys
             /\ parsed.messages[i].role = r.role
             /\ parsed.messages[i].content = r.content
             /\ parsed.messages[i].timestamp = r.timestamp

\* The metadata document the parse read, as YAML loads it, once the
\* metadata step has run on it
metadata_step_ran == op \in ParseOps /\ "metadata" \in reached
loaded_document == yaml_safe_load(yaml_data)

\* The document carries a legacy key without its canonical key, and every
\* canonical key is there under one of its two names
legacy_only(doc) ==
  /\ \/ HasKey(doc, "created") /\ ~HasKey(doc, "created_at")
     \/ HasKey(doc, "llmd_version") /\ ~HasKey(doc, "version")
  /\ HasKey(doc, "created") \/ HasKey(doc, "created_at")
  /\ HasKey(doc, "llmd_version") \/ HasKey(doc, "version")

\* C11: a metadata block that carries the legacy keys created and/or
\* llmd_version without the canonical keys is normalised, in both families,
\* to metadata whose created_at and version hold the legacy values, the
\* legacy keys being gone.
C11_LegacyKeysNormalised ==
  LET doc == loaded_document.data
  IN  (metadata_step_ran /\ loaded_document.isdict /\ legacy_only(doc))
      => /\ metadata # <<>>
         /\ (~HasKey(doc, "created_at")
               => /\ HasKey(metadata, "created_at")
                  /\ Get(metadata, "created_at") = Get(doc, "created")
                  /\ ~HasKey(metadata, "created"))
         /\ (~HasKey(doc, "version")
               => /\ HasKey(metadata, "version")
                  /\ Get(metadata, "version") = Get(doc, "llmd_version")
                  /\ ~HasKey(metadata, "llmd_version"))

\* C12: a metadata block without a participants key comes out of the
\* metadata step with participants equal to ["user", "assistant"], in that
\* order, and with every other key as the block has it.
C12_DefaultParticipants ==
  LET doc == loaded_document.data
  IN  (/\ metadata_step_ran /\ loaded_document.isdict
       /\ ~HasKey(doc, "participants")
       /\ HasKey(doc, "version") /\ HasKey(doc, "created_at"))
      => /\ metadata # <<>>
         /\ HasKey(metadata, "participants")
         /\ Get(metadata, "participants") = YList(<<PStr("user"), PStr("assistant")>>)
         /\ Keys(metadata) = Keys(doc) \cup {"participants"}
         /\ \A key \in Keys(doc) : Get(metadata, key) = Get(doc, key)

\* a block with both legacy keys beside the canonical ones and no
\* participants went through the metadata step
C12_Witness ==
  /\ metadata_step_ran /\ loaded_document.isdict /\ pc = "p_store"
  /\ ~HasKey(loaded_document.data, "participants")
  /\ {"version", "llmd_version", "created_at", "created", "title"}
       \subseteq Keys(loaded_document.data)
  /\ Len(Get(metadata, "participants").l) = 2

\* The canonical key is in the document under a name the family's
\* normaliser reads
version_available(doc) ==
  HasKey(doc, "version") \/ (family = "LLMD" /\ HasKey(doc, "llmd_version"))
created_at_available(doc) == HasKey(doc, "created_at") \/ HasKey(doc, "created")

\* C13: the metadata of every successful parse has version, created_at and
\* participants; a block that is not a mapping at top level, or that lacks
\* one of the three after normalisation, makes the parse fail with a
\* FormatError.
C13_RequiredMetadata ==
  LET doc == loaded_document.data
  IN  /\ (op \in ParseOps /\ metadata # <<>>)
          => {"version", "created_at", "participants"} \subseteq Keys(metadata)
      /\ (ParseDone /\ result.kind = "ok")
          => {"version", "created_at", "participants"} \subseteq Keys(parsed.metadata)
      /\ (/\ metadata_step_ran /\ loaded_document.err = "none"
          /\ \/ ~loaded_document.isdict
             \/ ~version_available(doc)
             \/ ~created_at_available(doc))
          => /\ pc = "done" /\ result.kind = "FormatError"
             /\ metadata = <<>> /\ parsed = NoConversation

\* a mapping without any version key and an empty document were both
\* rejected by the metadata step
C13_Witness ==
  /\ metadata_step_ran /\ pc = "done" /\ result.kind = "FormatError"
  /\ loaded_document.err = "none"
  /\ loaded_document.isdict
  /\ ~HasKey(loaded_document.data, "version")
  /\ ~HasKey(loaded_document.data, "llmd_version")
  /\ HasKey(loaded_document.data, "created")

\* The typed errors of the two entry points, and the exceptions their
\* collaborators (the stream, struct, yaml, json, sqlite3, the file system)
\* raise
typed_errors ==
  IF op \in ParseOps THEN {"ParseError", "FormatError"} ELSE {"ValidationError", "FormatError"}
collaborator_errors == {"OSError", "FileNotFoundError", "IsADirectoryError",
                        "NotADirectoryError", "struct.error", "JSONDecodeError",
                        "sqlite3.OperationalError", "sqlite3.IntegrityError"}

\* C14: every failure of parse and of write surfaces as a typed error; an
\* exception of a collaborator is wrapped once, at the outermost handler,
\* with the exception as the cause; an error that is already typed passes
\* the handler unchanged.
C14_TypedErrors ==
  /\ (pc = "done" /\ result.kind # "ok")
       => /\ result.kind \in typed_errors
          /\ result.cause \in collaborator_errors \cup {""}
  /\ (ParseDone /\ "load" \in reached)
       => LET l == load_store(family, sqlite_data, fault = "connect")
          IN  l.handled # "" => (result.kind = l.handled /\ result.cause = "")

\* The database the parse staged, once the load step has run on it
load_step_ran == op \in ParseOps /\ "load" \in reached /\ fault = "none"
staged_database == open_database(sqlite_data)

\* C15: the application id of the store is compared with the family's
\* constant before any row is read: a store under the other family's id, or
\* under none, makes the parse fail with a FormatError, whatever its tables
\* and rows are.
C15_ApplicationIdFirst ==
  (/\ load_step_ran /\ is_database(sqlite_data)
   /\ staged_database.app_id # (IF family = "LLMC" THEN LLMC_APPLICATION_ID
                                ELSE LLMD_APPLICATION_ID))
  => /\ pc = "done" /\ result.kind = "FormatError"
     /\ result.why = "Invalid SQLite application ID"
     /\ parsed = NoConversation

\* a store under the other family's id whose first row holds a malformed
\* metadata text was rejected for its id
C15_Witness ==
  /\ load_step_ran /\ is_database(sqlite_data) /\ pc = "done"
  /\ staged_database.app_id = SQLITE_APPLICATION_ID(CHOOSE f \in Families : f # family)
  /\ staged_database.msgs # <<>>
  /\ staged_database.msgs[1].metadata = Text(MalformedJson)
  /\ result.why = "Invalid SQLite application ID"

\* The row of the staged store a returned message was read from
row_of(m) ==
  CHOOSE r \in Range(staged_database.msgs) : m.id \in {r.id, msg_id_of(r.id)}

\* C16: the messages a parse returns are in the order of the sequence column
\* when the messages table has one, and in the order of the timestamps
\* otherwise; the attachments are in the order the store holds them.
C16_MessageOrder ==
  (ParseDone /\ result.kind = "ok" /\ load_step_ran)
  => /\ \A i, j \in DOMAIN parsed.messages :
          i < j => IF "sequence" \in staged_database.msg_cols
                   THEN row_of(parsed.messages[i]).sequence
                          <= row_of(parsed.messages[j]).sequence
                   ELSE row_of(parsed.messages[i]).timestamp
                          <= row_of(parsed.messages[j]).timestamp
     /\ Len(parsed.attachments) = Len(staged_database.atts)
     /\ \A i \in DOMAIN parsed.attachments :
          parsed.attachments[i].id
            \in {staged_database.atts[i].id, att_id_of(py_str(staged_database.atts[i].id))}

\* parse_stream as one function of the family and the bytes of the stream:
\* what it raises or returns, without the faults of the staging file
parse_of(fam, s) ==
  LET h == _read_header(fam, s, 0)
      y == _read_yaml_section(s, h.pos, h.yaml_length)
      m == _parse_metadata(fam, y.text)
      l == load_store(fam, ReadAll(s, store_start(fam, h)), FALSE)
      Fails(e, why) == [result |-> parse_stream_raises(e, why), conversation |-> NoConversation]
  IN  IF h.err # "none" THEN Fails(h.err, "")
      ELSE IF y.err # "none" THEN Fails(y.err, y.why)
      ELSE IF m.err # "none" THEN Fails(m.err, m.why)
      ELSE IF l.err # "none" THEN Fails(l.err, l.why)
      ELSE [result |-> Returned,
            conversation |->
              Conversation({"metadata", "messages"}
                             \cup (IF l.attachments # <<>> THEN {"attachments"} ELSE {}),
                           m.data, l.messages, l.attachments)]

\* The container with the bytes between the metadata block and the store
\* offset taken out and the offset set to the end of the metadata block
unpadded(fam, s, h) ==
  LET end == header_size(fam) + h.yaml_length
  IN  _write_header(fam, h.yaml_length, end)
        \o SubSeq(s, header_size(fam) + 1, end) \o ReadAll(s, h.sqlite_offset)

\* The header of the stream puts the store past the end of the metadata block
padded ==
  /\ op \in ParseOps /\ fault = "none" /\ "yaml" \in reached
  /\ header.sqlite_offset > header_size(family) + header.yaml_length
  /\ header.sqlite_offset <= Len(stream)

\* C17: the store is read at the offset the header gives: a container with
\* padding between the metadata block and the store parses to the outcome
\* and the conversation of the same container without the padding.
C17_OffsetAuthoritative ==
  (ParseDone /\ padded)
  => LET plain == parse_of(family, unpadded(family, stream, header))
     IN  /\ result = plain.result
         /\ parsed = (IF result.kind = "ok" THEN plain.conversation ELSE parsed)

\* a container with two bytes of padding or more was parsed to a
\* conversation with messages and attachments
C17_Witness ==
  /\ ParseDone /\ padded /\ result.kind = "ok"
  /\ header.sqlite_offset >= header_size(family) + header.yaml_length + 2
  /\ Len(parsed.messages) = MaxRows /\ parsed.attachments # <<>>

\* The staged store has a messages table of one of the two dialects, the
\* family's application id, and no attachments table
no_attachments_table ==
  /\ load_step_ran /\ is_database(sqlite_data)
  /\ staged_database.app_id = SQLITE_APPLICATION_ID(family)
  /\ staged_database.msg_cols \in {MsgColsWrite, MsgColsAltQuery}
  /\ staged_database.att_cols = {}

\* C18: a store with a messages table and no attachments table parses: the
\* conversation is returned with no attachments (and no attachments key).
C18_NoAttachmentsTable ==
  (ParseDone /\ no_attachments_table)
  => /\ result.kind = "ok"
     /\ parsed.attachments = <<>>
     /\ "attachments" \notin parsed.keys
     /\ Len(parsed.messages) = Len(staged_database.msgs)

\* C19: a conversation a successful parse returned, from a store of either
\* dialect, is accepted by write, and the parse of the written container
\* returns the same metadata version and as many messages.
C19_ParseWriteParse ==
  /\ (WriteDone /\ "rewrite" \in reached) => result.kind = "ok"
  /\ (ParseDone /\ {"rewrite", "reparse"} \subseteq reached)
       => /\ result.kind = "ok"
          /\ HasKey(parsed.metadata, "version")
          /\ Get(parsed.metadata, "version") = Get(conv.metadata, "version")
          /\ Len(parsed.messages) = Len(conv.messages)

\* a parsed conversation with messages, a parent link and an attachment
\* was written and parsed again
C19_Witness ==
  /\ ParseDone /\ {"rewrite", "reparse"} \subseteq reached /\ result.kind = "ok"
  /\ family = "LLMC"
  /\ Len(conv.messages) = MaxRows
  /\ "parent_id" \in conv.messages[MaxRows].keys
  /\ conv.attachments # <<>>
  /\ Len(parsed.messages) = MaxRows

\* The store a family's parser is handed: the database under that family's
\* application id
store_for(fam, db) == <<DbByte([db EXCEPT !.app_id = SQLITE_APPLICATION_ID(fam)])>>

\* C20: the two families differ in header size, magic and application id
\* only: on the same metadata block and the same store both parsers fail
\* with the same kind of error or return the same conversation, and both
\* writers produce the same metadata block and the same store schema.
C20_FamiliesAgree ==
  /\ metadata_step_ran
       => LET c == _parse_metadata("LLMC", yaml_data)
              d == _parse_metadata("LLMD", yaml_data)
          IN  c.err = d.err /\ c.data = d.data
  /\ (load_step_ran /\ is_database(sqlite_data))
       => LET c == load_store("LLMC", store_for("LLMC", staged_database), FALSE)
              d == load_store("LLMD", store_for("LLMD", staged_database), FALSE)
          IN  /\ parse_stream_raises(c.err, c.why).kind = parse_stream_raises(d.err, d.why).kind
              /\ c.messages = d.messages
              /\ c.attachments = d.attachments
  /\ (op \in WriteOps /\ "sqlite" \in reached)
       => LET c == _generate_sqlite("LLMC", conv)
              d == _generate_sqlite("LLMD", conv)
          IN  /\ c.err = d.err
              /\ c.err = "none"
                   => store_for("LLMC", c.data[1].v) = store_for("LLMC", d.data[1].v)

\* The first defect of a conversation in the order the claim gives:
\* <<what, index>>, or <<"", -1>> when there is none
first_defect(c) ==
  LET lacks(i) == \E f \in {"id", "role", "content", "timestamp"} : f \notin c.messages[i].keys
      bad == {i \in DOMAIN c.messages : lacks(i)}
      low == CHOOSE i \in bad : \A j \in bad : i <= j
      field(m) == IF "id" \notin m.keys THEN "id"
                  ELSE IF "role" \notin m.keys THEN "role"
                  ELSE IF "content" \notin m.keys THEN "content" ELSE "timestamp"
  IN  IF "metadata" \notin c.keys THEN <<"metadata section", -1>>
      ELSE IF "messages" \notin c.keys THEN <<"messages section", -1>>
      ELSE IF ~HasKey(c.metadata, "version") THEN <<"version", -1>>
      ELSE IF ~HasKey(c.metadata, "created_at") THEN <<"created_at", -1>>
      ELSE IF ~HasKey(c.metadata, "participants") THEN <<"participants", -1>>
      ELSE IF bad # {} THEN <<field(c.messages[low]), low - 1>>
      ELSE <<"", -1>>

\* C22: validation reports the first failure only, in a fixed order: the
\* metadata section, the messages section, the metadata fields version,
\* created_at, participants, then the messages by index, each for id, role,
\* content, timestamp; a metadata defect is reported before any message
\* defect and the lowest defective message is the one named.
C22_FirstFailureOnly ==
  (op \in WriteOps /\ "validate" \in reached)
  => IF first_defect(conv)[1] = ""
     THEN result.kind # "ValidationError"
     ELSE /\ pc = "done" /\ result.kind = "ValidationError"
          /\ result.why = first_defect(conv)[1]
          /\ result.index = first_defect(conv)[2]
          /\ stream = <<>>

\* a conversation without created_at and participants whose messages are
\* all defective was refused for created_at
C22_Witness ==
  /\ op \in WriteOps /\ "validate" \in reached /\ pc = "done"
  /\ {"metadata", "messages"} \subseteq conv.keys
  /\ HasKey(conv.metadata, "version")
  /\ ~HasKey(conv.metadata, "created_at") /\ ~HasKey(conv.metadata, "participants")
  /\ \A i \in DOMAIN conv.messages : "id" \notin conv.messages[i].keys
  /\ Len(conv.messages) = MaxMsgs
  /\ result.why = "created_at"

\* The participants of the document are a non-empty list of mappings
structured_participants(doc) ==
  /\ HasKey(doc, "participants")
  /\ Get(doc, "participants").t = "list"
  /\ Get(doc, "participants").l # <<>>
  /\ \A i \in DOMAIN Get(doc, "participants").l : Get(doc, "participants").l[i].t = "map"

\* C23: participants given as a sequence of structured records never make
\* the normalisation fail: when records carry a role, participants becomes
\* the roles of those records in their order (one per record when all carry
\* one); when none does, participants stays as given.
C23_ParticipantRecords ==
  LET doc == loaded_document.data
      given == Get(doc, "participants")
      with_role(e) == HasKey(e.m, "role")
      carrying == SelectSeq(given.l, with_role)
  IN  (/\ metadata_step_ran /\ loaded_document.isdict /\ structured_participants(doc)
       /\ HasKey(doc, "version") /\ created_at_available(doc))
      => /\ metadata # <<>>
         /\ IF carrying = <<>> THEN Get(metadata, "participants") = given
            ELSE /\ Get(metadata, "participants").t = "list"
                 /\ Len(Get(metadata, "participants").l) = Len(carrying)
                 /\ \A i \in DOMAIN carrying :
                      Get(metadata, "participants").l[i] = PStr(Get(carrying[i].m, "role"))

\* three records, the first and the last with a role, became the two roles
C23_Witness ==
  /\ metadata_step_ran /\ loaded_document.isdict /\ pc = "p_store"
  /\ structured_participants(loaded_document.data)
  /\ Len(Get(loaded_document.data, "participants").l) = 3
  /\ Get(metadata, "participants") = YList(<<PStr("assistant"), PStr("user")>>)

\* The characters of the metadata block as the stream holds them, and the
\* text left when every leading NUL and whitespace character and the
\* trailing whitespace are taken off
metadata_block ==
  decode_utf8(SubSeq(stream, header_size(family) + 1, header_size(family) + header.yaml_length))
unpadded_text(text) == rstrip(lstrip(text, {"nul"} \cup YamlWhitespace), YamlWhitespace)

\* C24: a metadata block that is a valid metadata text preceded by NUL
\* bytes and whitespace in any order parses to the metadata of the text
\* without them.
C24_NulAndWhitespaceTolerated ==
  (/\ metadata_step_ran /\ "reparse" \notin reached
   /\ metadata_block # <<>> /\ metadata_block[1].c \in {"nul"} \cup YamlWhitespace
   /\ _parse_metadata(family, unpadded_text(metadata_block)).err = "none")
  => /\ pc # "done" \/ result.kind = "ok"
     /\ metadata = _parse_metadata(family, unpadded_text(metadata_block)).data

\* The staged store is read, under the family's application id, by the
\* write-schema query, and a row of it holds a malformed attachments text
malformed_attachment_ids ==
  /\ load_step_ran /\ is_database(sqlite_data)
  /\ staged_database.app_id = SQLITE_APPLICATION_ID(family)
  /\ staged_database.msg_cols = MsgColsWrite
  /\ \E i \in DOMAIN staged_database.msgs :
       staged_database.msgs[i].attachments = Text(MalformedJson)

\* C25: in the write-schema path a message row whose attachments column is
\* malformed JSON makes the parse fail with a FormatError; in the
\* alternate-dialect path no attachment id is parsed as JSON, so no parse of
\* such a store fails on a JSON text.
C25_MalformedAttachmentIds ==
  /\ (ParseDone /\ malformed_attachment_ids)
       => /\ result.kind = "FormatError"
          /\ parsed = NoConversation
  /\ (/\ ParseDone /\ load_step_ran /\ is_database(sqlite_data)
      /\ probes_alt_dialect(family) /\ alt_messages_query_ok(staged_database))
       => result.cause # "JSONDecodeError"

\* The ids of the returned entities are the rows' keys under the tag prefix
message_ids_tagged ==
  \A i \in DOMAIN parsed.messages :
    parsed.messages[i].id \in {msg_id_of(r.id) : r \in Range(staged_database.msgs)}
attachment_ids_tagged ==
  \A i \in DOMAIN parsed.attachments :
    parsed.attachments[i].id
      \in {att_id_of(py_str(r.id)) : r \in Range(staged_database.atts)}

\* C26: within one parse the attachments are read under the dialect the
\* messages are read under: the attachment ids carry the attachment prefix
\* exactly when the message ids carry the message prefix.
C26_OneDialectPerParse ==
  (/\ ParseDone /\ load_step_ran /\ result.kind = "ok"
   /\ parsed.messages # <<>> /\ parsed.attachments # <<>>)
  => (message_ids_tagged <=> attachment_ids_tagged)

\* C27: the store offset write_stream puts in the header is the absolute
\* position in the sink at which the store section begins, and parse_stream
\* of the sink, from where the write began, recovers the written messages,
\* wherever the sink stood when write_stream was called.
C27_OffsetAbsoluteInSink ==
  ("reparse" \in reached /\ pc = "done" /\ conv.messages # <<>>) =>
    LET start == IF "held" \in reached THEN Len(prior.data) ELSE 0
        written == SubSeq(stream, start + 1, Len(stream))
        decoded == _read_header(family, written, 0)
    IN  /\ decoded.sqlite_offset = start + header_size(family) + decoded.yaml_length
        /\ result.kind = "ok"
        /\ Len(parsed.messages) = Len(conv.messages)
        /\ \A m \in Range(conv.messages) :
             \E i \in DOMAIN parsed.messages :
               parsed.messages[i].content = m.content

\* The same for a sink that stood at position 0
C27_OffsetFromStart ==
  ("reparse" \in reached /\ "held" \notin reached /\ pc = "done"
     /\ conv.messages # <<>>) => C27_OffsetAbsoluteInSink

\* C28: writing and parsing is idempotent: every container a write returned
\* parses, and when the conversation that parse returned is written and
\* parsed again, the write is accepted and the parse returns that
\* conversation: the same metadata, the same messages in the same order with
\* the same fields, and the same attachments.
C28_WriteParseIdempotent ==
  /\ (ParseDone /\ "reparse" \in reached) => result.kind = "ok"
  /\ (WriteDone /\ "again" \in reached) => result.kind = "ok"
  /\ (ParseDone /\ {"again", "reparse"} \subseteq reached) =>
       /\ result.kind = "ok"
       /\ DictEq(parsed.metadata, conv.metadata)
       /\ parsed.messages = conv.messages
       /\ parsed.keys = conv.keys
       /\ attachments_of(parsed) = attachments_of(conv)

C28_Witness ==
  /\ ParseDone /\ {"again", "reparse"} \subseteq reached /\ result.kind = "ok"
  /\ Len(parsed.messages) = 2
  /\ Len(attachments_of(parsed)) = 1
  /\ \E m \in Range(parsed.messages) : "attachments" \in m.keys
  /\ \E m \in Range(parsed.messages) : "attachments" \notin m.keys

\* The header was read and accepted, and its store offset is at or beyond
\* the end of the stream
store_missing ==
  /\ op \in ParseOps /\ "rewrite" \notin reached /\ "reparse" \notin reached
  /\ header # NoHeader /\ header.err = "none"
  /\ header.sqlite_offset >= Len(stream)

oversized == op \in WriteOps /\ Len(byte_length(yaml_data)) > 4

\* The header of a block of at most 2^24 - 1 bytes, field by field, is the
\* header _write_header gives
HeaderStepwise ==
  (pc = "wh_yaml" /\ Len(yaml_length_arg) <= 3) =>
    stream = _write_header(family, UnpackLE(yaml_length_arg), UnpackLE(sqlite_offset_arg))

\* A write of an oversized block ends in a format error, and the sink never
\* holds a length field: at most the twelve bytes before it
C30_NoReducedLength ==
  oversized => /\ Len(stream) <= 12
               /\ pc = "done" => result.kind = "FormatError" /\ result.cause = STRUCT_ERROR

\* C30: when the encoded metadata is longer than 32 bits can count, the
\* write fails with a FormatError, no byte of the header is written to the
\* sink, and no header carries the length reduced modulo 2^32.
C30_OversizedLengthRejected ==
  oversized => /\ stream = <<>>
               /\ pc = "done" => result.kind = "FormatError"

\* Call i holds a staging file: it has created it and not yet removed it
holds_file(i) == calls[i].pc \notin {"stage", "done"}

\* The staging file as call c alone leaves it before the step it stands at
own_file(c) ==
  LET g == _generate_sqlite(c.fam, c.conv)
      schema == store_under_construction(c.fam, MsgColsWrite, AttColsWrite)
      File_(bytes, journal) == [data |-> bytes, journal |-> journal]
  IN  CASE c.pc \in {"fill", "connect", "pragma"} -> File_(<<>>, FALSE)
        [] c.pc = "load" -> File_(store_bytes_of(c.fam, c.stream), FALSE)
        [] c.pc = "create_messages" -> File_(store_under_construction(c.fam, {}, {}), FALSE)
        [] c.pc = "create_attachments" ->
             File_(store_under_construction(c.fam, MsgColsWrite, {}), FALSE)
        [] c.pc = "insert" -> File_(schema, FALSE)
        [] c.pc \in {"commit", "rollback"} -> File_(schema, has_rows(c.conv))
        [] c.pc = "read" -> File_(g.data, FALSE)
        [] OTHER -> File_(IF c.op = "parse_stream" THEN store_bytes_of(c.fam, c.stream)
                          ELSE IF g.err = "none" THEN g.data ELSE schema, FALSE)

\* C21: two calls that run at once, in any interleaving, share no state:
\* the staging file of a call is there while the call holds it, was written
\* by that call alone and holds, at every step of the call, what the call
\* put there so far, and each call ends as it ends when it runs alone.
C21_CallsIndependent ==
  \A i \in DOMAIN calls :
    LET c == calls[i]
    IN  /\ holds_file(i) =>
             /\ c.tmp_path \in DOMAIN tmpdir
             /\ tmpdir[c.tmp_path] = [owner |-> i, data |-> own_file(c).data,
                                      journal |-> own_file(c).journal]
             /\ \A j \in DOMAIN calls : (j # i /\ holds_file(j)) => calls[j].tmp_path # c.tmp_path
        /\ c.pc = "done" => c.out = alone(c)
        /\ (calls[1].pc = "done" /\ calls[2].pc = "done") => tmpdir = <<>>

\* A parse and a write whose staging files were on disk at once both returned
C21_Witness ==
  /\ calls # <<>>
  /\ \A i \in DOMAIN calls : calls[i].pc = "done" /\ calls[i].out.result.kind = "ok"
  /\ {calls[1].op, calls[2].op} = {"parse_stream", "write_stream"}
  /\ \E i \in DOMAIN calls : calls[i].overlapped
  /\ \E i \in DOMAIN calls : Len(calls[i].out.conversation.messages) = 2

====
